---- MODULE Spec2Model ----
(***************************************************************************)
(* Model of the virtual memory mapper of the kernel                        *)
(* (kernel/memory/src/paging/mapper.rs): the Mapper over the 4-level page  *)
(* table reached through the recursive P4 address, and the MappedPages     *)
(* handle with its map, merge, deep_copy, remap, typed-view and drop       *)
(* operations.                                                             *)
(*                                                                         *)
(* The page table is the one the recursive P4 address reaches, i.e. the    *)
(* active one: nothing in the sources installs another P4, so              *)
(* get_current_p4 is a fixed frame.  A Mapper is a value (its target_p4),  *)
(* built by from_current or with_p4_frame right before the call that uses  *)
(* it.  A panic (a failed assert!/unwrap/expect) stops the kernel: a call  *)
(* that panics is no step of the model, except under SpecHuge, where a map *)
(* call that panics is the last step and shows the tables as it left them. *)
(*                                                                         *)
(* The second part models the task list and the context switch             *)
(* (src/task/mod.rs): TaskList with new_task, init_first_task, spawn and   *)
(* remove, and Task::context_switch, taken statement by statement.  A      *)
(* failed assert! of context_switch is a step there, to the position       *)
(* "panicked", after which the call runs no further.                       *)
(***************************************************************************)
EXTENDS Integers, Sequences, FiniteSets, TLC

\* ---------------------------------------------------------------- bounds
\* first virtual page of the modelled window (511 is the last page of one P1
\* table: the window reaches into the next one)
PageBase == 511
\* number of virtual pages in the window
NumPages == 3
\* frames the frame allocator can hand out (0 .. NumFrames-1)
NumFrames == 6
\* largest page range a single map call is given
MaxRange == 2
\* MappedPages handles that can be alive at once
MaxHandles == 2
\* size of the machine word task ids are counted in (usize, scaled down; there
\* are more ids below MAX_NR_TASKS than tasks fit in memory)
TaskIdMod == 8
\* tasks that can be in the task list at once
MaxTasks == 4
\* context_switch calls that can be in progress at a time
MaxCalls == 3

\* ------------------------------------------------------ program constants
ENTRIES_PER_PAGE_TABLE == 512
PAGE_SIZE == 4096
\* size_of::<u64>() / size_of::<usize>(), the T of the typed views
SIZE_OF_T == 8
\* size_of::<F>() of as_func, F a function pointer type
SIZE_OF_F == 8
\* usize arithmetic wraps at the machine word; the word is scaled down to 22 bits
\* here (every address of the page window fits), as the checker's integers are 32 bits
USIZE_MOD == 4194304

Pages == PageBase .. (PageBase + NumPages - 1)
AllocFrames == 0 .. (NumFrames - 1)
\* frames outside the frame allocator's pool, as handed to map_to / map_frames
\* (device memory, boot modules)
DeviceFrames == {NumFrames + 2, NumFrames + 3}
Frames == AllocFrames \cup DeviceFrames
\* the frame holding the active P4 table, and the frame of another P4 table
ActiveP4 == NumFrames
OtherP4 == NumFrames + 1
P4Frames == {ActiveP4, OtherP4}
\* contents of a page of physical memory (one abstract value per frame)
Bytes == {0, 1}

\* ------------------------------------------------------------ EntryFlags
\* the flag arguments the callers pass
FlagChoices ==
    { {"NO_EXECUTE"}, {"PRESENT", "WRITABLE"} }

is_writable(flags) == "WRITABLE" \in flags
is_executable(flags) == "NO_EXECUTE" \notin flags
is_huge(flags) == "HUGE" \in flags
\* Default::default() of the bitflags type
DefaultFlags == {}

\* ------------------------------------------------------- page-table entry
UnusedEntry == [frame |-> 0, flags |-> {}]
is_unused(entry) == entry = UnusedEntry
EntrySet(frame, flags) == [frame |-> frame, flags |-> flags]
NoFrame == -1
pointed_frame(entry) ==
    IF "PRESENT" \in entry.flags THEN entry.frame ELSE NoFrame

\* ----------------------------------------------------------- Page indices
p1_index(page) == page % ENTRIES_PER_PAGE_TABLE
p2_index(page) == (page \div ENTRIES_PER_PAGE_TABLE) % ENTRIES_PER_PAGE_TABLE
p3_index(page) ==
    (page \div (ENTRIES_PER_PAGE_TABLE * ENTRIES_PER_PAGE_TABLE)) % ENTRIES_PER_PAGE_TABLE
p4_index(page) ==
    (page \div (ENTRIES_PER_PAGE_TABLE * ENTRIES_PER_PAGE_TABLE * ENTRIES_PER_PAGE_TABLE))
        % ENTRIES_PER_PAGE_TABLE

\* An entry of a level-k table is named by the indices that lead to it, as the
\* recursive mapping computes a table's address from the indices alone.
K4(page) == <<p4_index(page)>>
K3(page) == <<p4_index(page), p3_index(page)>>
K2(page) == <<p4_index(page), p3_index(page), p2_index(page)>>
K1(page) == <<p4_index(page), p3_index(page), p2_index(page), p1_index(page)>>

VARIABLES
    tables,              \* the active page table: [l4, l3, l2, l1], entries by index path
    next_frame,          \* the frame allocator: frames below it were handed out
    frame_allocator_ref, \* whether get_frame_allocator_ref() returns Some
    reserved,            \* the virtual-page allocator: pages held by an AllocatedPages
    handles,             \* the live MappedPages objects
    mem,                 \* physical memory: contents of each frame
    last,                \* the call made last and what it returned
    BROADCAST_TLB_SHOOTDOWN_FUNC,  \* whether BROADCAST_TLB_SHOOTDOWN_FUNC.try() is Some
    bm_map               \* whether the kernel is built with cfg(bm_map)

vars == <<tables, next_frame, frame_allocator_ref, reserved, handles, mem, last,
          BROADCAST_TLB_SHOOTDOWN_FUNC, bm_map>>

\* the task list and the context switch (src/src/task/mod.rs)
VARIABLES
    list,                    \* TaskList.list: the tasks by id
    taskid_counter,          \* TaskList.taskid_counter
    CURRENT_TASK,            \* the id of the current task
    CONTEXT_SWITCH_LOCK,     \* the lock of context_switch
    page_table_register,     \* the page-table base register of the CPU
    init_first_task_called,  \* init_first_task has been called once
    cs,                      \* the context_switch call in progress and its position
    tlast,                   \* the task operation made last and what it returned
    others                   \* the context_switch calls in progress besides cs

task_vars == <<list, taskid_counter, CURRENT_TASK, CONTEXT_SWITCH_LOCK,
               page_table_register, init_first_task_called, cs, tlast, others>>

\* ------------------------------------------------------------- PageRange
PageRangeNew(start, end) == [start |-> start, end |-> end]
\* PageRange::empty()
PageRangeEmpty == PageRangeNew(1, 0)
size_in_pages(pages) ==
    IF pages.end + 1 > pages.start THEN pages.end + 1 - pages.start ELSE 0
size_in_bytes(pages) == size_in_pages(pages) * PAGE_SIZE
start_address(pages) == pages.start * PAGE_SIZE
RangePages(pages) == pages.start .. pages.end

\* ----------------------------------------------------------- MappedPages
\* `allocated` tells MaybeAllocatedPages::Allocated from ::NotAllocated
MappedPagesNew(p4, pages, allocated, flags) ==
    [page_table_p4 |-> p4, pages |-> pages, allocated |-> allocated, flags |-> flags]
\* no handle (a call that returned an error, an argument a call does not have)
NoHandle == MappedPagesNew(-1, PageRangeNew(0, 0), FALSE, {"none"})
\* a new handle can be kept alive
HasRoom == Cardinality(handles) < MaxHandles

\* ---------------------------------------------------------------- Mapper
get_current_p4 == ActiveP4
from_current == get_current_p4
with_p4_frame(p4) == p4

\* Table::next_table: the entry leads to a lower table when present and not huge
next_table(entry) == "PRESENT" \in entry.flags /\ ~is_huge(entry.flags)

\* mutant of translate_page: the frame inside a 1GiB page is taken from the
\* P1 index alone
translate_page_huge_p1_only(t, page) ==
    LET p3e == t.l3[K3(page)]
        p2e == t.l2[K2(page)]
        huge_page ==
            IF pointed_frame(p3e) # NoFrame /\ is_huge(p3e.flags)
            THEN p3e.frame + p1_index(page)
            ELSE IF next_table(p3e) /\ pointed_frame(p2e) # NoFrame /\ is_huge(p2e.flags)
            THEN p2e.frame + p1_index(page)
            ELSE NoFrame
    IN  IF ~next_table(t.l4[K4(page)]) THEN NoFrame
        ELSE IF next_table(p3e) /\ next_table(p2e)
                    /\ pointed_frame(t.l1[K1(page)]) # NoFrame
        THEN pointed_frame(t.l1[K1(page)])
        ELSE huge_page

\* the assert!s of translate_page hold: the start frame of the huge page the
\* walk ends at is aligned to the pages it spans (1GiB, 2MiB)
translate_page_asserts(t, page) ==
    LET p3e == t.l3[K3(page)]
        p2e == t.l2[K2(page)]
    IN  \/ ~next_table(t.l4[K4(page)])
        \/ /\ next_table(p3e) /\ next_table(p2e)
           /\ pointed_frame(t.l1[K1(page)]) # NoFrame
        \/ IF pointed_frame(p3e) # NoFrame /\ is_huge(p3e.flags)
           THEN p3e.frame % (ENTRIES_PER_PAGE_TABLE * ENTRIES_PER_PAGE_TABLE) = 0
           ELSE IF next_table(p3e) /\ pointed_frame(p2e) # NoFrame /\ is_huge(p2e.flags)
           THEN p2e.frame % ENTRIES_PER_PAGE_TABLE = 0
           ELSE TRUE

\* Mapper::translate_page; a 1GiB or 2MiB page is looked for when the walk
\* down to the P1 entry finds no frame
translate_page(t, page) ==
    LET p3e == t.l3[K3(page)]
        p2e == t.l2[K2(page)]
        huge_page ==
            IF pointed_frame(p3e) # NoFrame /\ is_huge(p3e.flags)
            THEN p3e.frame + p2_index(page) * ENTRIES_PER_PAGE_TABLE + p1_index(page)
            ELSE IF next_table(p3e) /\ pointed_frame(p2e) # NoFrame /\ is_huge(p2e.flags)
            THEN p2e.frame + p1_index(page)
            ELSE NoFrame
    IN  IF ~next_table(t.l4[K4(page)]) THEN NoFrame
        ELSE IF next_table(p3e) /\ next_table(p2e)
                    /\ pointed_frame(t.l1[K1(page)]) # NoFrame
        THEN pointed_frame(t.l1[K1(page)])
        ELSE huge_page

ContainingPage(virtual_address) == virtual_address \div PAGE_SIZE
page_offset(virtual_address) == virtual_address % PAGE_SIZE
NoAddress == -1
translate(t, virtual_address) ==
    LET frame == translate_page(t, ContainingPage(virtual_address))
    IN  IF frame = NoFrame THEN NoAddress
        ELSE frame * PAGE_SIZE + page_offset(virtual_address)

\* What a call does to a page's P1 entry and to the TLBs, in the order it does it:
\* the write of the entry, tlb_flush_virt_addr of the page, and the call of the
\* shootdown broadcaster with a page range.
EntryWrite(page) == [e |-> "set", start |-> page, end |-> page]
TlbFlush(page) == [e |-> "tlb_flush_virt_addr", start |-> page, end |-> page]
Broadcast(pages) == [e |-> "broadcast_tlb_shootdown", start |-> pages.start, end |-> pages.end]

\* The state a map call threads through its loop: the tables, the frame
\* allocator, the error it stopped with ("" while running), whether it
\* panicked, and (remap and unmap) what it did to entries and TLBs so far.
MapState(t, nf) == [t |-> t, nf |-> nf, err |-> "", panic |-> FALSE, ev |-> <<>>]

\* Table::next_table_create: an entry that leads to a table is followed; else
\* a frame is allocated and the entry set to it with the given flags plus
\* PRESENT | WRITABLE, and the new table is entered; a HUGE entry is not
\* descended through (panic), before the write and after it.
next_table_create(st, level, key, flags) ==
    LET entry == st.t[level][key]
        new_flags == flags \cup {"PRESENT", "WRITABLE"}
    IN  IF st.panic \/ next_table(entry) THEN st
        ELSE IF is_huge(entry.flags) \/ st.nf >= NumFrames
        THEN [st EXCEPT !.panic = TRUE]
        ELSE IF is_huge(new_flags)
        THEN [st EXCEPT !.t[level][key] = EntrySet(st.nf, new_flags), !.nf = @ + 1,
                        !.panic = TRUE]
        ELSE [st EXCEPT !.t[level][key] = EntrySet(st.nf, new_flags), !.nf = @ + 1]

\* mutant of MapOnePage: the P1 entry is set with the caller's flags alone,
\* without PRESENT
MapOnePage_NoPresent(st, page, frame, flags) ==
    LET top_level_flags == flags \ {"NO_EXECUTE"}
        s3 == next_table_create(st, "l4", K4(page), top_level_flags)
        s2 == next_table_create(s3, "l3", K3(page), top_level_flags)
        s1 == next_table_create(s2, "l2", K2(page), top_level_flags)
    IN  IF s1.panic THEN s1
        ELSE IF ~is_unused(s1.t.l1[K1(page)])
        THEN [s1 EXCEPT !.err = "page was already in use"]
        ELSE [s1 EXCEPT !.t.l1[K1(page)] = EntrySet(frame, flags)]

\* mutant of MapOnePage: the tables above P1 get the caller's flags as they
\* are, NO_EXECUTE included
MapOnePage_TopLevelNoExecute(st, page, frame, flags) ==
    LET top_level_flags == flags
        s3 == next_table_create(st, "l4", K4(page), top_level_flags)
        s2 == next_table_create(s3, "l3", K3(page), top_level_flags)
        s1 == next_table_create(s2, "l2", K2(page), top_level_flags)
    IN  IF s1.panic THEN s1
        ELSE IF ~is_unused(s1.t.l1[K1(page)])
        THEN [s1 EXCEPT !.err = "page was already in use"]
        ELSE [s1 EXCEPT !.t.l1[K1(page)] = EntrySet(frame, flags \cup {"PRESENT"})]

\* mutant of MapOnePage: the P1 entry is set without the test for being in use
MapOnePage_NoInUseCheck(st, page, frame, flags) ==
    LET top_level_flags == flags \ {"NO_EXECUTE"}
        s3 == next_table_create(st, "l4", K4(page), top_level_flags)
        s2 == next_table_create(s3, "l3", K3(page), top_level_flags)
        s1 == next_table_create(s2, "l2", K2(page), top_level_flags)
    IN  IF s1.panic THEN s1
        ELSE [s1 EXCEPT !.t.l1[K1(page)] = EntrySet(frame, flags \cup {"PRESENT"})]

\* mutant of MapOnePage: the P1 entry is set before it is tested for being in use
MapOnePage_SetsBeforeCheck(st, page, frame, flags) ==
    LET top_level_flags == flags \ {"NO_EXECUTE"}
        s3 == next_table_create(st, "l4", K4(page), top_level_flags)
        s2 == next_table_create(s3, "l3", K3(page), top_level_flags)
        s1 == next_table_create(s2, "l2", K2(page), top_level_flags)
        set == [s1 EXCEPT !.t.l1[K1(page)] = EntrySet(frame, flags \cup {"PRESENT"})]
    IN  IF s1.panic THEN s1
        ELSE IF ~is_unused(s1.t.l1[K1(page)])
        THEN [set EXCEPT !.err = "page was already in use"]
        ELSE set

\* one turn of the loop body shared by internal_map and internal_map_to
MapOnePage(st, page, frame, flags) ==
    LET top_level_flags == flags \ {"NO_EXECUTE"}
        s3 == next_table_create(st, "l4", K4(page), top_level_flags)
        s2 == next_table_create(s3, "l3", K3(page), top_level_flags)
        s1 == next_table_create(s2, "l2", K2(page), top_level_flags)
    IN  IF s1.panic THEN s1
        ELSE IF ~is_unused(s1.t.l1[K1(page)])
        THEN [s1 EXCEPT !.err = "page was already in use"]
        ELSE [s1 EXCEPT !.t.l1[K1(page)] = EntrySet(frame, flags \cup {"PRESENT"})]

RECURSIVE internal_map_loop(_, _, _, _)
internal_map_loop(st, page, end, flags) ==
    IF page > end \/ st.err # "" \/ st.panic THEN st
    ELSE IF st.nf >= NumFrames
    THEN [st EXCEPT !.err = "Mapper::internal_map(): couldn't allocate new frame, out of memory!"]
    ELSE internal_map_loop(
            MapOnePage([st EXCEPT !.nf = @ + 1], page, st.nf, flags),
            page + 1, end, flags)

internal_map(pages, flags) ==
    internal_map_loop(MapState(tables, next_frame), pages.start, pages.end, flags)


\* mutant of internal_map_to_loop: the frame is not advanced with the page
RECURSIVE internal_map_to_loop_same_frame(_, _, _, _, _)
internal_map_to_loop_same_frame(st, page, end, frame, flags) ==
    IF page > end \/ st.err # "" \/ st.panic THEN st
    ELSE internal_map_to_loop_same_frame(MapOnePage(st, page, frame, flags),
                                         page + 1, end, frame, flags)

RECURSIVE internal_map_to_loop(_, _, _, _, _)
internal_map_to_loop(st, page, end, frame, flags) ==
    IF page > end \/ st.err # "" \/ st.panic THEN st
    ELSE internal_map_to_loop(MapOnePage(st, page, frame, flags),
                              page + 1, end, frame + 1, flags)

\* FrameRange: [start, end] inclusive, like PageRange
internal_map_to(pages, frames, flags) ==
    IF size_in_pages(pages) # size_in_pages(frames)
    THEN [MapState(tables, next_frame) EXCEPT
            !.err = "map_to_internal(): page count must equal frame count"]
    ELSE internal_map_to_loop(MapState(tables, next_frame),
                              pages.start, pages.end, frames.start, flags)

\* ------------------------------------------------- remap and unmap loops
\* the walk next_table_mut(p4).and_then(p3).and_then(p2) of remap and unmap
WalkToP1(t, page) ==
    next_table(t.l4[K4(page)]) /\ next_table(t.l3[K3(page)]) /\ next_table(t.l2[K2(page)])

\* the remap loop with the entry set to new_flags without PRESENT
RECURSIVE remap_loop_no_present(_, _, _, _)
remap_loop_no_present(st, page, end, new_flags) ==
    IF page > end \/ st.err # "" THEN st
    ELSE IF ~WalkToP1(st.t, page)
    THEN [st EXCEPT !.err = "mapping code does not support huge pages"]
    ELSE IF pointed_frame(st.t.l1[K1(page)]) = NoFrame
    THEN [st EXCEPT !.err = "remap(): page not mapped"]
    ELSE remap_loop_no_present(
            [st EXCEPT !.t.l1[K1(page)] =
                EntrySet(pointed_frame(st.t.l1[K1(page)]), new_flags),
                       !.ev = @ \o <<EntryWrite(page), TlbFlush(page)>>],
            page + 1, end, new_flags)

RECURSIVE remap_loop(_, _, _, _)
remap_loop(st, page, end, new_flags) ==
    IF page > end \/ st.err # "" THEN st
    ELSE IF ~WalkToP1(st.t, page)
    THEN [st EXCEPT !.err = "mapping code does not support huge pages"]
    ELSE IF pointed_frame(st.t.l1[K1(page)]) = NoFrame
    THEN [st EXCEPT !.err = "remap(): page not mapped"]
    ELSE remap_loop(
            [st EXCEPT !.t.l1[K1(page)] =
                EntrySet(pointed_frame(st.t.l1[K1(page)]), new_flags \cup {"PRESENT"}),
                       !.ev = @ \o <<EntryWrite(page), TlbFlush(page)>>],
            page + 1, end, new_flags)

\* mutant of remap_result: self.flags is not updated
remap_result_stale_flags(t, mp, new_flags) ==
    IF size_in_pages(mp.pages) = 0 \/ new_flags = mp.flags
    THEN [t |-> t, mp |-> mp, err |-> "", ev |-> <<>>]
    ELSE LET st == remap_loop(MapState(t, 0), mp.pages.start, mp.pages.end, new_flags)
         IN  [t |-> st.t, mp |-> mp, err |-> st.err,
              ev |-> IF st.err = "" /\ BROADCAST_TLB_SHOOTDOWN_FUNC
                     THEN st.ev \o <<Broadcast(mp.pages)>> ELSE st.ev]

\* mutant of remap_result: the broadcaster is called before the loop
remap_result_broadcast_first(t, mp, new_flags) ==
    IF size_in_pages(mp.pages) = 0 \/ new_flags = mp.flags
    THEN [t |-> t, mp |-> mp, err |-> "", ev |-> <<>>]
    ELSE LET st == remap_loop(MapState(t, 0), mp.pages.start, mp.pages.end, new_flags)
         IN  [t |-> st.t,
              mp |-> IF st.err = "" THEN [mp EXCEPT !.flags = new_flags] ELSE mp,
              err |-> st.err,
              ev |-> IF BROADCAST_TLB_SHOOTDOWN_FUNC
                     THEN <<Broadcast(mp.pages)>> \o st.ev ELSE st.ev]

\* MappedPages::remap on the handle mp over the tables t: the tables, the
\* handle and the error ("" for Ok) it leaves, and what it did in which order
remap_result(t, mp, new_flags) ==
    IF size_in_pages(mp.pages) = 0 \/ new_flags = mp.flags
    THEN [t |-> t, mp |-> mp, err |-> "", ev |-> <<>>]
    ELSE LET st == remap_loop(MapState(t, 0), mp.pages.start, mp.pages.end, new_flags)
         IN  [t |-> st.t,
              mp |-> IF st.err = "" THEN [mp EXCEPT !.flags = new_flags] ELSE mp,
              err |-> st.err,
              ev |-> IF st.err = "" /\ BROADCAST_TLB_SHOOTDOWN_FUNC
                     THEN st.ev \o <<Broadcast(mp.pages)>> ELSE st.ev]

\* mutant of unmap_loop: the range is taken as exclusive of its last page
RECURSIVE unmap_loop_exclusive(_, _, _)
unmap_loop_exclusive(st, page, end) ==
    IF page >= end \/ st.err # "" THEN st
    ELSE IF ~WalkToP1(st.t, page)
    THEN [st EXCEPT !.err = "mapping code does not support huge pages"]
    ELSE IF pointed_frame(st.t.l1[K1(page)]) = NoFrame
    THEN [st EXCEPT !.err = "unmap(): page not mapped"]
    ELSE unmap_loop_exclusive(
            [st EXCEPT !.t.l1[K1(page)] = UnusedEntry,
                       !.ev = @ \o <<EntryWrite(page), TlbFlush(page)>>],
            page + 1, end)

RECURSIVE unmap_loop(_, _, _)
unmap_loop(st, page, end) ==
    IF page > end \/ st.err # "" THEN st
    ELSE IF ~WalkToP1(st.t, page)
    THEN [st EXCEPT !.err = "mapping code does not support huge pages"]
    ELSE IF pointed_frame(st.t.l1[K1(page)]) = NoFrame
    THEN [st EXCEPT !.err = "unmap(): page not mapped"]
    ELSE unmap_loop(
            [st EXCEPT !.t.l1[K1(page)] = UnusedEntry,
                       !.ev = @ \o <<EntryWrite(page), TlbFlush(page)>>],
            page + 1, end)

\* MappedPages::unmap: the tables and the error it leaves, and what it did in
\* which order; the broadcaster is called in a build without cfg(bm_map)
unmap_result(t, mp) ==
    IF size_in_pages(mp.pages) = 0 THEN MapState(t, 0)
    ELSE LET st == unmap_loop(MapState(t, 0), mp.pages.start, mp.pages.end)
         IN  IF st.err = "" /\ ~bm_map /\ BROADCAST_TLB_SHOOTDOWN_FUNC
             THEN [st EXCEPT !.ev = @ \o <<Broadcast(mp.pages)>>]
             ELSE st

\* ------------------------------------------------ virtual-page allocator
\* allocate_pages(n): the ranges of n pages it can return (none: it returns None)
AllocatablePages(n) ==
    IF n = 0 THEN {}
    ELSE { r \in { PageRangeNew(s, s + n - 1) : s \in Pages } :
             RangePages(r) \subseteq (Pages \ reserved) }
\* Drop for AllocatedPages: the pages go back to the allocator
ReleasePages(res, mp) ==
    IF mp.allocated THEN res \ RangePages(mp.pages) ELSE res

\* ---------------------------------------------------------------- actions
\* Option<EntryFlags>
NoFlags == [some |-> FALSE, flags |-> {}]
SomeFlags(flags) == [some |-> TRUE, flags |-> flags]

\* The record of the last call: its name, the Err it returned ("" for Ok), the
\* handle it returned or left, the handles it was given as they were before the
\* call (a: self, b: the other one), its flags argument, and (remap and drop)
\* what it did to P1 entries and TLBs, in order.
Last(op, err, h, a, b, arg) ==
    [op |-> op, err |-> err, h |-> h, a |-> a, b |-> b, arg |-> arg, ev |-> <<>>]

\* what every map call does with the outcome st of its loop: the handle it
\* returns carries the Mapper's target_p4
FinishMap(op, st, target_p4, pages, allocated, flags) ==
    LET mp == MappedPagesNew(target_p4, pages, allocated, flags)
    IN  /\ ~st.panic
        /\ tables' = st.t
        /\ next_frame' = st.nf
        /\ IF st.err = ""
           THEN /\ HasRoom
                /\ handles' = handles \cup {mp}
                /\ reserved' = IF allocated THEN reserved \cup RangePages(pages)
                               ELSE reserved
                /\ last' = Last(op, "", mp, NoHandle, NoHandle, NoFlags)
           ELSE /\ handles' = handles
                /\ reserved' = reserved
                /\ last' = Last(op, st.err, NoHandle, NoHandle, NoHandle, NoFlags)
        /\ UNCHANGED <<frame_allocator_ref, mem, BROADCAST_TLB_SHOOTDOWN_FUNC, bm_map, task_vars>>

\* A map call that panics: the kernel stops with the tables as the call has
\* written them so far.
Panicked == "panicked"
Halted == last.err = Panicked
MapPanics(op, st) ==
    /\ st.panic
    /\ tables' = st.t
    /\ next_frame' = st.nf
    /\ last' = Last(op, Panicked, NoHandle, NoHandle, NoHandle, NoFlags)
    /\ UNCHANGED <<frame_allocator_ref, reserved, handles, mem, BROADCAST_TLB_SHOOTDOWN_FUNC, bm_map, task_vars>>

\* Mapper::map, on a Mapper whose target_p4 is the given frame
map(target_p4, page, flags) ==
    LET pages == PageRangeNew(page, page)
    IN  FinishMap("map", internal_map(pages, flags), target_p4, pages, FALSE, flags)

map_to(target_p4, page, frame, flags) ==
    LET pages == PageRangeNew(page, page)
    IN  FinishMap("map_to", internal_map_to(pages, PageRangeNew(frame, frame), flags),
                  target_p4, pages, FALSE, flags)

map_pages(target_p4, pages, flags) ==
    FinishMap("map_pages", internal_map(pages, flags), target_p4, pages, FALSE, flags)

map_frames(target_p4, frames, start_page, flags) ==
    LET end_page == start_page - 1 + size_in_pages(frames)
        pages == PageRangeNew(start_page, end_page)
    IN  FinishMap("map_frames", internal_map_to(pages, frames, flags),
                  target_p4, pages, FALSE, flags)

\* the AllocatedPages argument is one allocate_pages has just returned; it is
\* dropped (its pages released) when the mapping fails
map_allocated_pages_to(target_p4, allocated_pages, frames, flags) ==
    FinishMap("map_allocated_pages_to", internal_map_to(allocated_pages, frames, flags),
              target_p4, allocated_pages, TRUE, flags)

map_allocated_pages(target_p4, allocated_pages, flags) ==
    FinishMap("map_allocated_pages", internal_map(allocated_pages, flags),
              target_p4, allocated_pages, TRUE, flags)

MapOps == {"map", "map_to", "map_pages", "map_frames",
           "map_allocated_pages_to", "map_allocated_pages"}

\* MappedPages::empty
empty ==
    LET mp == MappedPagesNew(get_current_p4, PageRangeEmpty, FALSE, DefaultFlags)
    IN  /\ HasRoom \/ mp \in handles
        /\ handles' = handles \cup {mp}
        /\ last' = Last("empty", "", mp, NoHandle, NoHandle, NoFlags)
        /\ UNCHANGED <<tables, next_frame, frame_allocator_ref, reserved, mem, BROADCAST_TLB_SHOOTDOWN_FUNC, bm_map, task_vars>>

\* merge with the new range started at mp's first page
merge_result_start_of_mp(self, mp) ==
    LET err == IF mp.page_table_p4 # self.page_table_p4
               THEN "mappings were mapped with different page tables"
               ELSE IF mp.flags # self.flags
               THEN "mappings were mapped with different flags"
               ELSE IF mp.pages.start # self.pages.end + 1
               THEN "mappings were not contiguous in virtual memory"
               ELSE IF mp.allocated # self.allocated
               THEN "some mappings were mapped to AllocatedPages, while others were not"
               ELSE ""
    IN  IF err # "" THEN [err |-> err, self |-> self, dropped |-> {}]
        ELSE [err |-> "",
              self |-> [self EXCEPT !.pages = PageRangeNew(mp.pages.start, mp.pages.end)],
              dropped |-> IF self.allocated THEN RangePages(self.pages) ELSE {}]

\* merge without the comparison of the flags
merge_result_any_flags(self, mp) ==
    LET err == IF mp.page_table_p4 # self.page_table_p4
               THEN "mappings were mapped with different page tables"
               ELSE IF mp.pages.start # self.pages.end + 1
               THEN "mappings were not contiguous in virtual memory"
               ELSE IF mp.allocated # self.allocated
               THEN "some mappings were mapped to AllocatedPages, while others were not"
               ELSE ""
    IN  IF err # "" THEN [err |-> err, self |-> self, dropped |-> {}]
        ELSE [err |-> "",
              self |-> [self EXCEPT !.pages = PageRangeNew(self.pages.start, mp.pages.end)],
              dropped |-> IF self.allocated THEN RangePages(self.pages) ELSE {}]

\* MappedPages::merge of mp into self: the error ("" for Ok), self afterwards,
\* and the pages whose AllocatedPages is dropped by the assignment to self.pages
\* (mp itself is forgotten, not dropped)
merge_result(self, mp) ==
    LET previous_end == mp.pages.end
        err == IF mp.page_table_p4 # self.page_table_p4
               THEN "mappings were mapped with different page tables"
               ELSE IF mp.flags # self.flags
               THEN "mappings were mapped with different flags"
               ELSE IF mp.pages.start # self.pages.end + 1
               THEN "mappings were not contiguous in virtual memory"
               ELSE IF mp.allocated # self.allocated
               THEN "some mappings were mapped to AllocatedPages, while others were not"
               ELSE ""
        new_page_range == PageRangeNew(self.pages.start, previous_end)
    IN  IF err # "" THEN [err |-> err, self |-> self, dropped |-> {}]
        ELSE [err |-> "",
              self |-> [self EXCEPT !.pages = new_page_range],
              dropped |-> IF self.allocated THEN RangePages(self.pages) ELSE {}]

merge(self, mp) ==
    LET r == merge_result(self, mp)
    IN  /\ self \in handles /\ mp \in handles /\ self # mp
        /\ handles' = IF r.err = "" THEN (handles \ {self, mp}) \cup {r.self} ELSE handles
        /\ reserved' = reserved \ r.dropped
        /\ last' = Last("merge", r.err, r.self, self, mp, NoFlags)
        /\ UNCHANGED <<tables, next_frame, frame_allocator_ref, mem, BROADCAST_TLB_SHOOTDOWN_FUNC, bm_map, task_vars>>

\* MappedPages::remap
remap(mp, new_flags) ==
    LET r == remap_result(tables, mp, new_flags)
    IN  /\ mp \in handles
        /\ tables' = r.t
        /\ handles' = (handles \ {mp}) \cup {r.mp}
        /\ last' = [Last("remap", r.err, r.mp, mp, NoHandle, SomeFlags(new_flags))
                        EXCEPT !.ev = r.ev]
        /\ UNCHANGED <<next_frame, frame_allocator_ref, reserved, mem, BROADCAST_TLB_SHOOTDOWN_FUNC, bm_map, task_vars>>

\* Drop without the comparison of the current P4 with the handle's
drop_tables_any_p4(t, mp, have_allocator) ==
    IF size_in_pages(mp.pages) = 0 THEN t
    ELSE IF ~have_allocator THEN t
    ELSE unmap_result(t, mp).t

\* Drop for MappedPages: the tables it leaves (an unmap error is logged, not returned)
drop_tables(t, mp, have_allocator) ==
    IF size_in_pages(mp.pages) = 0 THEN t
    ELSE IF from_current # mp.page_table_p4 THEN t
    ELSE IF ~have_allocator THEN t
    ELSE unmap_result(t, mp).t

\* Drop for MappedPages: what its unmap does to P1 entries and TLBs, in order
drop_events(t, mp, have_allocator) ==
    IF size_in_pages(mp.pages) = 0 THEN <<>>
    ELSE IF from_current # mp.page_table_p4 THEN <<>>
    ELSE IF ~have_allocator THEN <<>>
    ELSE unmap_result(t, mp).ev

\* the handle goes out of scope: drop runs, then its fields are dropped
drop(mp) ==
    /\ mp \in handles
    /\ tables' = drop_tables(tables, mp, frame_allocator_ref)
    /\ handles' = handles \ {mp}
    /\ reserved' = ReleasePages(reserved, mp)
    /\ last' = [Last("drop", "", NoHandle, mp, NoHandle, NoFlags)
                    EXCEPT !.ev = drop_events(tables, mp, frame_allocator_ref)]
    /\ UNCHANGED <<next_frame, frame_allocator_ref, mem, BROADCAST_TLB_SHOOTDOWN_FUNC, bm_map, task_vars>>

\* the frame allocator is put in its global: get_frame_allocator_ref() is Some from now on
init_frame_allocator_ref ==
    /\ ~frame_allocator_ref
    /\ frame_allocator_ref' = TRUE
    /\ last' = Last("init_frame_allocator_ref", "", NoHandle, NoHandle, NoHandle, NoFlags)
    /\ UNCHANGED <<tables, next_frame, reserved, handles, mem,
                   BROADCAST_TLB_SHOOTDOWN_FUNC, bm_map, task_vars>>

\* the TLB shootdown function is put in its global Once
init_broadcast_tlb_shootdown ==
    /\ ~BROADCAST_TLB_SHOOTDOWN_FUNC
    /\ BROADCAST_TLB_SHOOTDOWN_FUNC' = TRUE
    /\ last' = Last("init_broadcast_tlb_shootdown", "", NoHandle, NoHandle, NoHandle, NoFlags)
    /\ UNCHANGED <<tables, next_frame, frame_allocator_ref, reserved, handles, mem,
                   bm_map, task_vars>>

\* --------------------------------------------------------- typed views
\* usize addition and multiplication (wrapping, as in a release build)
usize_add(a, b) == (a + b) % USIZE_MOD
usize_mul(a, b) == (a * b) % USIZE_MOD

BoundsErrType == "requested type and offset would not fit within the MappedPages bounds"
BoundsErrSlice == "requested slice length and offset would not fit within the MappedPages bounds"

\* the Err of as_type ("" for Ok)
as_type_err(mp, offset, size) ==
    IF usize_add(offset, size) > size_in_bytes(mp.pages) THEN BoundsErrType ELSE ""

\* as_type_mut with the bounds check made before the flags check
as_type_mut_err_bounds_first(mp, offset, size) ==
    IF usize_add(offset, size) > size_in_bytes(mp.pages) THEN BoundsErrType
    ELSE IF ~is_writable(mp.flags) THEN "as_type_mut(): MappedPages were not writable"
    ELSE ""

as_type_mut_err(mp, offset, size) ==
    IF ~is_writable(mp.flags) THEN "as_type_mut(): MappedPages were not writable"
    ELSE IF usize_add(offset, size) > size_in_bytes(mp.pages) THEN BoundsErrType
    ELSE ""

as_slice_err(mp, byte_offset, length, size) ==
    IF usize_add(byte_offset, usize_mul(length, size)) > size_in_bytes(mp.pages)
    THEN BoundsErrSlice ELSE ""

as_slice_mut_err(mp, byte_offset, length, size) ==
    IF ~is_writable(mp.flags) THEN "as_slice_mut(): MappedPages were not writable"
    ELSE IF usize_add(byte_offset, usize_mul(length, size)) > size_in_bytes(mp.pages)
    THEN BoundsErrSlice
    ELSE ""

\* as_func with the bounds check made before the flags check
as_func_err_bounds_first(mp, offset, size) ==
    IF usize_add(offset, size) > size_in_bytes(mp.pages) THEN BoundsErrType
    ELSE IF ~is_executable(mp.flags) THEN "as_func(): MappedPages were not executable"
    ELSE ""

as_func_err(mp, offset, size) ==
    IF ~is_executable(mp.flags) THEN "as_func(): MappedPages were not executable"
    ELSE IF usize_add(offset, size) > size_in_bytes(mp.pages) THEN BoundsErrType
    ELSE ""

\* the MMU: the frame a store to the page goes to (NoFrame: page fault)
StoreFrame(t, page) ==
    IF page \in Pages /\ WalkToP1(t, page) /\ pointed_frame(t.l1[K1(page)]) # NoFrame
          /\ is_writable(t.l1[K1(page)].flags)
    THEN pointed_frame(t.l1[K1(page)]) ELSE NoFrame
\* the frame a load from the page comes from
LoadFrame(t, page) == IF page \in Pages THEN translate_page(t, page) ELSE NoFrame

\* the pages the bytes [address, address + bytes) lie in
SpanPages(address, bytes) ==
    IF bytes = 0 THEN {}
    ELSE ContainingPage(address) .. ContainingPage(address + bytes - 1)

\* the caller stores v through the whole view it was given
StoreThrough(address, bytes, v) ==
    /\ \A page \in SpanPages(address, bytes) : StoreFrame(tables, page) # NoFrame
    /\ mem' = [f \in Frames |->
                 IF \E page \in SpanPages(address, bytes) : StoreFrame(tables, page) = f
                 THEN v ELSE mem[f]]

\* MappedPages::as_type_mut::<T>(offset), and a store through the &mut T it returns
as_type_mut(mp, offset, v) ==
    LET err == as_type_mut_err(mp, offset, SIZE_OF_T)
    IN  /\ mp \in handles
        /\ last' = Last("as_type_mut", err, mp, NoHandle, NoHandle,
                         [offset |-> offset, length |-> 1])
        /\ IF err = ""
           THEN StoreThrough(usize_add(start_address(mp.pages), offset), SIZE_OF_T, v)
           ELSE mem' = mem
        /\ UNCHANGED <<tables, next_frame, frame_allocator_ref, reserved, handles, BROADCAST_TLB_SHOOTDOWN_FUNC, bm_map, task_vars>>

\* MappedPages::as_slice_mut::<T>(byte_offset, length), and a store through the slice
as_slice_mut(mp, byte_offset, length, v) ==
    LET err == as_slice_mut_err(mp, byte_offset, length, SIZE_OF_T)
    IN  /\ mp \in handles
        /\ last' = Last("as_slice_mut", err, mp, NoHandle, NoHandle,
                         [offset |-> byte_offset, length |-> length])
        /\ IF err = ""
           THEN StoreThrough(usize_add(start_address(mp.pages), byte_offset),
                             length * SIZE_OF_T, v)
           ELSE mem' = mem
        /\ UNCHANGED <<tables, next_frame, frame_allocator_ref, reserved, handles, BROADCAST_TLB_SHOOTDOWN_FUNC, bm_map, task_vars>>

\* a view is returned (or refused) and nothing else happens
ReturnView(op, err, mp, offset, length) ==
    /\ mp \in handles
    /\ last' = Last(op, err, mp, NoHandle, NoHandle, [offset |-> offset, length |-> length])
    /\ UNCHANGED <<tables, next_frame, frame_allocator_ref, reserved, handles, mem,
                   BROADCAST_TLB_SHOOTDOWN_FUNC, bm_map, task_vars>>

\* MappedPages::as_type::<T>(offset)
as_type(mp, offset) ==
    ReturnView("as_type", as_type_err(mp, offset, SIZE_OF_T), mp, offset, 1)

\* MappedPages::as_slice::<T>(byte_offset, length)
as_slice(mp, byte_offset, length) ==
    ReturnView("as_slice", as_slice_err(mp, byte_offset, length, SIZE_OF_T),
               mp, byte_offset, length)

\* MappedPages::as_func::<F>(offset, space)
as_func(mp, offset) ==
    ReturnView("as_func", as_func_err(mp, offset, SIZE_OF_F), mp, offset, 1)

\* ------------------------------------------------------------ deep_copy
\* a copy that leaves the destination as it was mapped
copy_from_slice_skipped(m, t, dest_page, source_page, n) == m

\* dest.copy_from_slice(source), page by page through the MMU
RECURSIVE copy_from_slice(_, _, _, _, _)
copy_from_slice(m, t, dest_page, source_page, n) ==
    IF n = 0 THEN m
    ELSE copy_from_slice(
            [m EXCEPT ![StoreFrame(t, dest_page)] = m[LoadFrame(t, source_page)]],
            t, dest_page + 1, source_page + 1, n - 1)

\* the body of deep_copy after allocate_pages returned new_pages: the tables,
\* frame allocator, memory, the new handle and the error ("" for Ok) it leaves
deep_copy_result(self, new_flags_opt, target_p4, new_pages) ==
    LET size == size_in_pages(self.pages)
        new_flags == IF new_flags_opt.some THEN new_flags_opt.flags ELSE self.flags
        needs_remapping == is_writable(new_flags)
        temp_flags == new_flags \cup {"WRITABLE"}
        st == internal_map(new_pages, temp_flags)
        new_mapped_pages == MappedPagesNew(target_p4, new_pages, TRUE, temp_flags)
        src_err == as_slice_err(self, 0, size, PAGE_SIZE)
        dst_err == as_slice_mut_err(new_mapped_pages, 0, size, PAGE_SIZE)
        fault == \E i \in 0 .. (size - 1) :
                    \/ LoadFrame(st.t, self.pages.start + i) = NoFrame
                    \/ StoreFrame(st.t, new_pages.start + i) = NoFrame
        copied == copy_from_slice(mem, st.t, new_pages.start, self.pages.start, size)
        r == IF needs_remapping THEN remap_result(st.t, new_mapped_pages, new_flags)
             ELSE [t |-> st.t, mp |-> new_mapped_pages, err |-> ""]
    IN  IF st.panic \/ st.err # ""
        THEN [panic |-> st.panic, err |-> st.err, t |-> st.t, nf |-> st.nf,
              m |-> mem, mp |-> NoHandle]
        ELSE IF src_err # "" \/ dst_err # ""
        THEN [panic |-> FALSE, err |-> IF src_err # "" THEN src_err ELSE dst_err,
              t |-> drop_tables(st.t, new_mapped_pages, frame_allocator_ref), nf |-> st.nf,
              m |-> mem, mp |-> NoHandle]
        ELSE IF fault
        THEN [panic |-> TRUE, err |-> "", t |-> st.t, nf |-> st.nf, m |-> mem,
              mp |-> NoHandle]
        ELSE [panic |-> FALSE, err |-> r.err, t |-> r.t, nf |-> st.nf, m |-> copied,
              mp |-> r.mp]

\* MappedPages::deep_copy; new_pages is what allocate_pages(size_in_pages) returns
deep_copy(self, new_flags_opt, target_p4, new_pages) ==
    LET r == deep_copy_result(self, new_flags_opt, target_p4, new_pages)
    IN  /\ self \in handles
        /\ new_pages \in AllocatablePages(size_in_pages(self.pages))
        /\ ~r.panic
        /\ tables' = r.t
        /\ next_frame' = r.nf
        /\ mem' = r.m
        /\ IF r.err = ""
           THEN /\ HasRoom
                /\ handles' = handles \cup {r.mp}
                /\ reserved' = reserved \cup RangePages(new_pages)
           ELSE /\ handles' = handles
                /\ reserved' = reserved
        /\ last' = Last("deep_copy", r.err, r.mp, self, NoHandle, new_flags_opt)
        /\ UNCHANGED <<frame_allocator_ref, BROADCAST_TLB_SHOOTDOWN_FUNC, bm_map, task_vars>>

\* deep_copy when allocate_pages returns None
deep_copy_no_pages(self) ==
    /\ self \in handles
    /\ AllocatablePages(size_in_pages(self.pages)) = {}
    /\ last' = Last("deep_copy", "Couldn't allocate_pages()", NoHandle, self, NoHandle, NoFlags)
    /\ UNCHANGED <<tables, next_frame, frame_allocator_ref, reserved, handles, mem, BROADCAST_TLB_SHOOTDOWN_FUNC, bm_map, task_vars>>

\* ================================================================ tasks
\* TaskId: a usize
TaskIds == 0 .. (TaskIdMod - 1)
usize_max_value == TaskIdMod - 1
MAX_NR_TASKS == usize_max_value - 1
\* no task: the None / Err of a call that returns a task
NoTaskId == TaskIdMod

\* the stack spawn creates, and the size of the word written to it
STACK_SIZE == 16384
SIZE_OF_USIZE == 8
\* the entry functions given to spawn (their addresses)
Funcs == {4198400, 4198464}

\* enum RunState; EXITED carries the exit code
RunState(tag, code) == [tag |-> tag, code |-> code]
INITING == RunState("INITING", 0)
RUNNABLE == RunState("RUNNABLE", 0)
RUNNING == RunState("RUNNING", 0)
BLOCKED == RunState("BLOCKED", 0)
EXITED(code) == RunState("EXITED", code)
ExitCodes == {1}

\* ArchTaskState::new(): no page table and no stack set yet
ArchTaskStateNew == [page_table |-> 0, stack |-> 0]
\* the page-table base the CPU was booted with
BootPageTable == ActiveP4 * PAGE_SIZE

\* Option<Box<[u8]>>: the words of the stack at the offsets looked at
StackOffsets == {0, STACK_SIZE - 2 * SIZE_OF_USIZE, STACK_SIZE - SIZE_OF_USIZE}
NoStack == [some |-> FALSE, base |-> 0, len |-> 0, words |-> [o \in {} |-> 0]]
\* vec![0; 16384].into_boxed_slice() at the address base
NewStack(base) ==
    [some |-> TRUE, base |-> base, len |-> STACK_SIZE, words |-> [o \in StackOffsets |-> 0]]
\* the heap: the address of a new stack, clear of the stacks of the tasks in l
HeapSlots == 1 .. (MaxTasks + 1)
FreeSlots(l) ==
    { k \in HeapSlots : \A id \in DOMAIN l : l[id].kstack.base # k * STACK_SIZE }
AllocStackBase(l) == STACK_SIZE * (CHOOSE k \in FreeSlots(l) : \A j \in FreeSlots(l) : k <= j)

\* Task::new
TaskNew(task_id) ==
    [id |-> task_id,
     runstate |-> INITING,
     arch_state |-> ArchTaskStateNew,
     name |-> <<"task", task_id>>,
     kstack |-> NoStack]

\* BTreeMap::insert and remove
insert(l, k, v) == [x \in (DOMAIN l) \cup {k} |-> IF x = k THEN v ELSE l[x]]
remove_key(l, k) == [x \in (DOMAIN l) \ {k} |-> l[x]]

\* what the task operation made last was, and what it returned
TLast(op, err, id, self, func) ==
    [op |-> op, err |-> err, id |-> id, self |-> self, func |-> func]

\* no context_switch is in progress
Idle == cs.pc = "idle"
CsIdle == [pc |-> "idle", self |-> NoTaskId, next |-> NoTaskId]

\* new_task without the search for an unused id
new_task_scan_none(keys, counter, starting_taskid) == [err |-> "", counter |-> counter]

\* the loop of new_task giving up at the end of the word instead of wrapping
RECURSIVE new_task_scan_stops_at_max(_, _, _)
new_task_scan_stops_at_max(keys, counter, starting_taskid) ==
    IF counter \notin keys THEN [err |-> "", counter |-> counter]
    ELSE IF counter = usize_max_value \/ starting_taskid = counter + 1
    THEN [err |-> "unable to find free id for new task", counter |-> counter]
    ELSE new_task_scan_stops_at_max(keys, counter + 1, starting_taskid)

\* the while loop of new_task: the counter is incremented past the ids in use
\* (a usize addition, which wraps) until it is free or back at starting_taskid
RECURSIVE new_task_scan(_, _, _)
new_task_scan(keys, counter, starting_taskid) ==
    IF counter \notin keys THEN [err |-> "", counter |-> counter]
    ELSE LET incremented == (counter + 1) % TaskIdMod
         IN  IF starting_taskid = incremented
             THEN [err |-> "unable to find free id for new task", counter |-> incremented]
             ELSE new_task_scan(keys, incremented, starting_taskid)

\* TaskList::new_task on the list l with the counter: the error ("" for Ok),
\* the list and the counter it leaves, and the id of the task it returns
new_task_result(l, counter) ==
    LET reset == IF counter >= MAX_NR_TASKS THEN 1 ELSE counter
        scan == new_task_scan(DOMAIN l, reset, reset)
        new_id == scan.counter
    IN  IF scan.err # ""
        THEN [err |-> scan.err, list |-> l, counter |-> scan.counter, id |-> NoTaskId]
        ELSE [err |-> "", list |-> insert(l, new_id, TaskNew(new_id)),
              counter |-> (new_id + 1) % TaskIdMod, id |-> new_id]

\* the tasks fit in memory
TasksHaveRoom == Cardinality(DOMAIN list) < MaxTasks

\* TaskList::new_task, whatever the number of tasks
new_task_call ==
    LET r == new_task_result(list, taskid_counter)
    IN  /\ Idle
        /\ list' = r.list
        /\ taskid_counter' = r.counter
        /\ tlast' = TLast("new_task", r.err, r.id, NoTaskId, 0)
        /\ UNCHANGED <<CURRENT_TASK, CONTEXT_SWITCH_LOCK, page_table_register,
                       init_first_task_called, cs, others, vars>>

\* TaskList::new_task
new_task ==
    LET r == new_task_result(list, taskid_counter)
    IN  /\ Idle
        /\ TasksHaveRoom
        /\ list' = r.list
        /\ taskid_counter' = r.counter
        /\ tlast' = TLast("new_task", r.err, r.id, NoTaskId, 0)
        /\ UNCHANGED <<CURRENT_TASK, CONTEXT_SWITCH_LOCK, page_table_register,
                       init_first_task_called, cs, others, vars>>

\* TaskList::init_first_task; a second call panics at assert_has_not_been_called!
init_first_task ==
    LET id_zero == 0
        \* task_zero.runstate == RunState::RUNNING compares and assigns nothing
        task_zero == [TaskNew(id_zero) EXCEPT !.arch_state.page_table = page_table_register]
    IN  /\ Idle
        /\ ~init_first_task_called
        /\ TasksHaveRoom \/ id_zero \in DOMAIN list
        /\ init_first_task_called' = TRUE
        /\ CURRENT_TASK' = id_zero
        /\ list' = insert(list, id_zero, task_zero)
        /\ tlast' = TLast("init_first_task",
                          IF id_zero \in DOMAIN list
                          THEN "WTF: task_zero already existed?!?" ELSE "",
                          id_zero, NoTaskId, 0)
        /\ UNCHANGED <<taskid_counter, CONTEXT_SWITCH_LOCK, page_table_register, cs, others, vars>>

\* spawn with the function pointer written one word lower
spawn_task_word_below_top(new, curr_pgtbl, func, base) ==
    LET offset == STACK_SIZE - 2 * SIZE_OF_USIZE
        stack == [NewStack(base) EXCEPT !.words[offset] = func]
    IN  [new EXCEPT !.arch_state.page_table = curr_pgtbl,
                    !.arch_state.stack = stack.base + offset,
                    !.kstack = stack,
                    !.runstate = RUNNABLE]
\* spawn without set_page_table
spawn_task_no_page_table(new, curr_pgtbl, func, base) ==
    LET offset == STACK_SIZE - SIZE_OF_USIZE
        stack == [NewStack(base) EXCEPT !.words[offset] = func]
    IN  [new EXCEPT !.arch_state.stack = stack.base + offset,
                    !.kstack = stack,
                    !.runstate = RUNNABLE]

\* the task spawn sets up inside the new task it got from new_task
spawn_task(new, curr_pgtbl, func, base) ==
    LET offset == STACK_SIZE - SIZE_OF_USIZE
        stack == [NewStack(base) EXCEPT !.words[offset] = func]
    IN  [new EXCEPT !.arch_state.page_table = curr_pgtbl,
                    !.arch_state.stack = stack.base + offset,
                    !.kstack = stack,
                    !.runstate = RUNNABLE]

\* TaskList::spawn; it panics when there is no current task in the list or
\* when new_task fails
spawn(func) ==
    LET r == new_task_result(list, taskid_counter)
        curr_pgtbl == list[CURRENT_TASK].arch_state.page_table
    IN  /\ Idle
        /\ TasksHaveRoom
        /\ CURRENT_TASK \in DOMAIN list
        /\ r.err = ""
        /\ list' = [r.list EXCEPT ![r.id] =
                       spawn_task(r.list[r.id], curr_pgtbl, func, AllocStackBase(list))]
        /\ taskid_counter' = r.counter
        /\ tlast' = TLast("spawn", "", r.id, CURRENT_TASK, func)
        /\ UNCHANGED <<CURRENT_TASK, CONTEXT_SWITCH_LOCK, page_table_register,
                       init_first_task_called, cs, others, vars>>

\* TaskList::remove
remove(id) ==
    /\ Idle
    /\ list' = remove_key(list, id)
    /\ tlast' = TLast("remove", "", IF id \in DOMAIN list THEN id ELSE NoTaskId, NoTaskId, 0)
    /\ UNCHANGED <<taskid_counter, CURRENT_TASK, CONTEXT_SWITCH_LOCK, page_table_register,
                   init_first_task_called, cs, others, vars>>

\* the rest of the kernel writes the runstate of a task: it blocks or exits
set_runstate(id, runstate) ==
    /\ Idle
    /\ id \in DOMAIN list
    /\ list[id].runstate # runstate
    /\ list' = [list EXCEPT ![id].runstate = runstate]
    /\ tlast' = TLast("set_runstate", "", id, NoTaskId, 0)
    /\ UNCHANGED <<taskid_counter, CURRENT_TASK, CONTEXT_SWITCH_LOCK, page_table_register,
                   init_first_task_called, cs, others, vars>>

\* ------------------------------------------------------- context_switch
\* the scheduler calls current.context_switch(next) on the current task
context_switch_call(next) ==
    /\ Idle
    /\ CURRENT_TASK \in DOMAIN list
    /\ next \in DOMAIN list /\ next # CURRENT_TASK
    /\ cs' = [pc |-> "spin", self |-> CURRENT_TASK, next |-> next]
    /\ UNCHANGED <<list, taskid_counter, CURRENT_TASK, CONTEXT_SWITCH_LOCK,
                   page_table_register, init_first_task_called, tlast, others, vars>>

\* mutant of context_switch_lock: the lock is stored, not compared and swapped
context_switch_lock_store ==
    /\ cs.pc = "spin"
    /\ CONTEXT_SWITCH_LOCK' = TRUE
    /\ cs' = [cs EXCEPT !.pc = "locked"]
    /\ UNCHANGED <<list, taskid_counter, CURRENT_TASK, page_table_register,
                   init_first_task_called, tlast, others, vars>>

\* while CONTEXT_SWITCH_LOCK.compare_and_swap(false, true) { pause() }
context_switch_lock ==
    /\ cs.pc = "spin"
    /\ ~CONTEXT_SWITCH_LOCK
    /\ CONTEXT_SWITCH_LOCK' = TRUE
    /\ cs' = [cs EXCEPT !.pc = "locked"]
    /\ UNCHANGED <<list, taskid_counter, CURRENT_TASK, page_table_register,
                   init_first_task_called, tlast, others, vars>>

\* the message of the assert! that fails for next ("" when both hold)
context_switch_assert(next_task) ==
    IF next_task.runstate = BLOCKED THEN "scheduler bug: chosen 'next' Task was BLOCKED!"
    ELSE IF next_task.runstate = RUNNING
    THEN "scheduler bug: chosen 'next' Task was already RUNNING!"
    ELSE ""

\* the two assert!s on next.runstate
context_switch_check ==
    LET msg == context_switch_assert(list[cs.next])
    IN  /\ cs.pc = "locked"
        /\ IF msg = ""
           THEN /\ cs' = [cs EXCEPT !.pc = "checked"]
                /\ tlast' = tlast
           ELSE /\ cs' = [cs EXCEPT !.pc = "panicked"]
                /\ tlast' = TLast("context_switch", msg, cs.next, cs.self, 0)
        /\ UNCHANGED <<list, taskid_counter, CURRENT_TASK, CONTEXT_SWITCH_LOCK,
                       page_table_register, init_first_task_called, others, vars>>

\* the runstate update without next.runstate = RUNNING
update_runstates_skips_next(l, self, next) ==
    [l EXCEPT ![self].runstate = RUNNABLE]
\* the runstate update without self.runstate = RUNNABLE
update_runstates_keeps_self(l, self, next) ==
    [l EXCEPT ![next].runstate = RUNNING]

\* self.runstate = RUNNABLE; next.runstate = RUNNING
update_runstates(l, self, next) ==
    [[l EXCEPT ![self].runstate = RUNNABLE] EXCEPT ![next].runstate = RUNNING]

context_switch_runstates ==
    /\ cs.pc = "checked"
    /\ list' = update_runstates(list, cs.self, cs.next)
    /\ cs' = [cs EXCEPT !.pc = "updated"]
    /\ UNCHANGED <<taskid_counter, CURRENT_TASK, CONTEXT_SWITCH_LOCK, page_table_register,
                   init_first_task_called, tlast, others, vars>>

\* CURRENT_TASK.store(next.id)
context_switch_store ==
    /\ cs.pc = "updated"
    /\ CURRENT_TASK' = list[cs.next].id
    /\ cs' = [cs EXCEPT !.pc = "published"]
    /\ UNCHANGED <<list, taskid_counter, CONTEXT_SWITCH_LOCK, page_table_register,
                   init_first_task_called, tlast, others, vars>>

\* mutant of context_switch_unlock: the lock is kept across the register switch
context_switch_unlock_kept ==
    /\ cs.pc = "published"
    /\ CONTEXT_SWITCH_LOCK' = CONTEXT_SWITCH_LOCK
    /\ cs' = [cs EXCEPT !.pc = "unlocked"]
    /\ UNCHANGED <<list, taskid_counter, CURRENT_TASK, page_table_register,
                   init_first_task_called, tlast, others, vars>>

\* CONTEXT_SWITCH_LOCK.store(false)
context_switch_unlock ==
    /\ cs.pc = "published"
    /\ CONTEXT_SWITCH_LOCK' = FALSE
    /\ cs' = [cs EXCEPT !.pc = "unlocked"]
    /\ UNCHANGED <<list, taskid_counter, CURRENT_TASK, page_table_register,
                   init_first_task_called, tlast, others, vars>>

\* self.arch_state.switch_to(&next.arch_state): the registers of next are
\* loaded, the page-table base among them
switch_to ==
    /\ cs.pc = "unlocked"
    /\ page_table_register' = list[cs.next].arch_state.page_table
    /\ cs' = CsIdle
    /\ tlast' = TLast("context_switch", "", cs.next, cs.self, 0)
    /\ UNCHANGED <<list, taskid_counter, CURRENT_TASK, CONTEXT_SWITCH_LOCK,
                   init_first_task_called, others, vars>>

\* Calls of context_switch are interleaved: another call in progress (on
\* another CPU, or the one an interrupt cut short) takes the next steps, and
\* the one that took them so far waits.
interleave(i) ==
    /\ i \in DOMAIN others
    /\ cs # others[i]
    /\ cs' = others[i]
    /\ others' = [others EXCEPT ![i] = cs]
    /\ UNCHANGED <<list, taskid_counter, CURRENT_TASK, CONTEXT_SWITCH_LOCK,
                   page_table_register, init_first_task_called, tlast, vars>>

\* the state after TaskList::new(), before any task exists
TaskInit ==
    /\ list = [id \in {} |-> TaskNew(id)]
    /\ taskid_counter = 1
    /\ CURRENT_TASK = 0
    /\ CONTEXT_SWITCH_LOCK = FALSE
    /\ page_table_register = BootPageTable
    /\ init_first_task_called = FALSE
    /\ cs = CsIdle
    /\ tlast = TLast("init", "", NoTaskId, NoTaskId, 0)
    /\ others = [i \in 1 .. (MaxCalls - 1) |-> CsIdle]

\* ------------------------------------------------------------ the system
\* the arguments the callers pass
RangeChoices ==
    { r \in { PageRangeNew(s, e) : s \in Pages, e \in Pages } :
        size_in_pages(r) >= 1 /\ size_in_pages(r) <= MaxRange }
FrameRangeChoices ==
    { r \in { PageRangeNew(s, e) : s \in DeviceFrames, e \in DeviceFrames } :
        r.start <= r.end }
NewFlagsChoices == {NoFlags} \cup { SomeFlags(f) : f \in FlagChoices }
OffsetChoices == {0, PAGE_SIZE - SIZE_OF_T, PAGE_SIZE, USIZE_MOD - SIZE_OF_T}
LengthChoices == {0, 1, 513}

\* the mapper before any map call
MapperStart ==
    /\ tables = [l4 |-> [k \in {K4(p) : p \in Pages} |-> UnusedEntry],
                 l3 |-> [k \in {K3(p) : p \in Pages} |-> UnusedEntry],
                 l2 |-> [k \in {K2(p) : p \in Pages} |-> UnusedEntry],
                 l1 |-> [k \in {K1(p) : p \in Pages} |-> UnusedEntry]]
    /\ next_frame = 0
    /\ frame_allocator_ref = FALSE
    /\ reserved = {}
    /\ handles = {}
    /\ mem = [f \in Frames |-> 0]
    /\ last = Last("init", "", NoHandle, NoHandle, NoHandle, NoFlags)
    /\ BROADCAST_TLB_SHOOTDOWN_FUNC = FALSE

\* the kernel as it is built by default, without cfg(bm_map)
MapperInit ==
    /\ MapperStart
    /\ bm_map = FALSE

Init ==
    /\ MapperInit
    /\ TaskInit

\* The mapper with frames from the frame allocator: mapping, merge, remap,
\* deep_copy and drop.
Next ==
    \/ \E p4 \in P4Frames, page \in Pages, flags \in FlagChoices : map(p4, page, flags)
    \/ \E pages \in RangeChoices, flags \in FlagChoices :
          map_pages(from_current, pages, flags)
    \/ \E p4 \in P4Frames, n \in 1 .. MaxRange, flags \in FlagChoices :
          \E ap \in AllocatablePages(n) : map_allocated_pages(p4, ap, flags)
    \/ empty
    \/ \E self \in handles, mp \in handles : merge(self, mp)
    \/ \E mp \in handles, flags \in FlagChoices : remap(mp, flags)
    \/ \E mp \in handles : drop(mp)
    \/ init_frame_allocator_ref
    \/ \E self \in handles, nf \in NewFlagsChoices :
          \E new_pages \in AllocatablePages(size_in_pages(self.pages)) :
             deep_copy(self, nf, from_current, new_pages)
    \/ \E self \in handles : deep_copy_no_pages(self)

Spec == Init /\ [][Next]_vars

\* The contents of the mapped memory: stores through the mutable views, and
\* deep_copy. With the handles these operations leave, allocate_pages always
\* has a page range to return to deep_copy.
NextMem ==
    \/ \E pages \in RangeChoices, flags \in FlagChoices :
          map_pages(from_current, pages, flags)
    \/ \E mp \in handles, flags \in FlagChoices : remap(mp, flags)
    \/ \E mp \in handles, offset \in OffsetChoices, v \in Bytes : as_type_mut(mp, offset, v)
    \/ \E mp \in handles, offset \in OffsetChoices, length \in LengthChoices, v \in Bytes :
          as_slice_mut(mp, offset, length, v)
    \/ \E self \in handles, nf \in NewFlagsChoices :
          \E new_pages \in AllocatablePages(size_in_pages(self.pages)) :
             deep_copy(self, nf, from_current, new_pages)

SpecMem == Init /\ [][NextMem]_vars

\* the steps of a context_switch call
context_switch_steps ==
    \/ \E next \in TaskIds : context_switch_call(next)
    \/ context_switch_lock
    \/ context_switch_check
    \/ context_switch_runstates
    \/ context_switch_store
    \/ context_switch_unlock
    \/ switch_to

\* The task list: tasks are created, spawned, removed, blocked, exited and
\* switched between.
NextTask ==
    \/ init_first_task
    \/ new_task
    \/ \E func \in Funcs : spawn(func)
    \/ \E id \in TaskIds : set_runstate(id, BLOCKED)
    \/ \E id \in TaskIds, code \in ExitCodes : set_runstate(id, EXITED(code))
    \/ context_switch_steps

SpecTask == Init /\ [][NextTask]_task_vars

\* The ids of the tasks: tasks are created and removed, and the id counter
\* goes round.
NextIds ==
    \/ init_first_task
    \/ new_task
    \/ \E func \in Funcs : spawn(func)
    \/ \E id \in TaskIds : remove(id)

SpecIds == Init /\ [][NextIds]_task_vars

\* The tasks of a kernel that is booted and then only spawns and switches.
NextSpawn ==
    \/ init_first_task
    \/ \E func \in Funcs : spawn(func)
    \/ context_switch_steps

SpecSpawn == Init /\ [][NextSpawn]_task_vars

\* new_task as a function of the list and the counter: any set of ids in use,
\* any value of the counter.
InitNewTask ==
    /\ MapperInit
    /\ list \in { [id \in keys |-> TaskNew(id)] : keys \in SUBSET TaskIds }
    /\ taskid_counter \in TaskIds
    /\ CURRENT_TASK = 0
    /\ CONTEXT_SWITCH_LOCK = FALSE
    /\ page_table_register = BootPageTable
    /\ init_first_task_called = FALSE
    /\ cs = CsIdle
    /\ tlast = TLast("init", "", NoTaskId, NoTaskId, 0)
    /\ others = [i \in 1 .. (MaxCalls - 1) |-> CsIdle]

NextNewTask == new_task_call

SpecNewTask == InitNewTask /\ [][NextNewTask]_task_vars

\* The mapper called with flags that have the HUGE bit set, a panic of a map
\* call being the last step.
HugeFlagChoices == FlagChoices \cup { {"HUGE", "WRITABLE"} }
map_or_panic(target_p4, page, flags) ==
    /\ ~Halted
    /\ \/ map(target_p4, page, flags)
       \/ MapPanics("map", internal_map(PageRangeNew(page, page), flags))
map_pages_or_panic(target_p4, pages, flags) ==
    /\ ~Halted
    /\ \/ map_pages(target_p4, pages, flags)
       \/ MapPanics("map_pages", internal_map(pages, flags))
NextHuge ==
    \/ \E p4 \in P4Frames, page \in Pages, flags \in HugeFlagChoices :
          map_or_panic(p4, page, flags)
    \/ \E pages \in RangeChoices, flags \in HugeFlagChoices :
          map_pages_or_panic(from_current, pages, flags)
    \/ \E mp \in handles : ~Halted /\ drop(mp)

SpecHuge == Init /\ [][NextHuge]_vars

\* The mapper with frames given by the caller (map_to, map_frames,
\* map_allocated_pages_to) next to frames from the frame allocator.
NextMapTo ==
    \/ \E page \in Pages, flags \in FlagChoices : map(from_current, page, flags)
    \/ \E pages \in RangeChoices, flags \in FlagChoices :
          map_pages(from_current, pages, flags)
    \/ \E page \in Pages, frame \in DeviceFrames, flags \in FlagChoices :
          map_to(from_current, page, frame, flags)
    \/ \E frames \in FrameRangeChoices, start_page \in Pages, flags \in FlagChoices :
          /\ start_page - 1 + size_in_pages(frames) \in Pages
          /\ map_frames(from_current, frames, start_page, flags)
    \/ \E n \in 1 .. MaxRange, frames \in FrameRangeChoices, flags \in FlagChoices :
          \E ap \in AllocatablePages(n) :
             map_allocated_pages_to(from_current, ap, frames, flags)

SpecMapTo == Init /\ [][NextMapTo]_vars

\* remap and drop with and without the TLB shootdown function installed, in
\* a build with and in one without cfg(bm_map)
InitTlb ==
    /\ MapperStart
    /\ bm_map \in BOOLEAN
    /\ TaskInit
NextTlb ==
    \/ \E pages \in RangeChoices, flags \in FlagChoices :
          map_pages(from_current, pages, flags)
    \/ empty
    \/ \E mp \in handles, flags \in FlagChoices : remap(mp, flags)
    \/ \E mp \in handles : drop(mp)
    \/ init_frame_allocator_ref
    \/ init_broadcast_tlb_shootdown

SpecTlb == InitTlb /\ [][NextTlb]_vars

\* The typed views of mappings that are made and remapped; the lengths include
\* one whose byte count is a whole machine word.
ViewLengthChoices == LengthChoices \cup {USIZE_MOD \div SIZE_OF_T}
\* the flags of remap include flags that are executable and not writable
RemapFlagChoices == FlagChoices \cup { {"PRESENT"} }
NextView ==
    \/ \E pages \in RangeChoices, flags \in FlagChoices :
          map_pages(from_current, pages, flags)
    \/ \E mp \in handles, flags \in RemapFlagChoices : remap(mp, flags)
    \/ \E mp \in handles, offset \in OffsetChoices : as_type(mp, offset)
    \/ \E mp \in handles, offset \in OffsetChoices, v \in Bytes : as_type_mut(mp, offset, v)
    \/ \E mp \in handles, offset \in OffsetChoices, length \in ViewLengthChoices :
          as_slice(mp, offset, length)
    \/ \E mp \in handles, offset \in OffsetChoices, length \in ViewLengthChoices, v \in Bytes :
          as_slice_mut(mp, offset, length, v)
    \/ \E mp \in handles, offset \in OffsetChoices : as_func(mp, offset)

SpecView == Init /\ [][NextView]_vars

\* Several context_switch calls in progress at a time, their steps interleaved.
\* the tasks there are to switch between
LockTasks == 3
NextLock ==
    \/ init_first_task
    \/ \E func \in Funcs : Cardinality(DOMAIN list) < LockTasks /\ spawn(func)
    \/ context_switch_steps
    \/ \E i \in DOMAIN others : interleave(i)

SpecLock == Init /\ [][NextLock]_task_vars

\* The same under fair scheduling: every CPU goes on executing, so a call in
\* progress gets its turn again and again, and a statement it can execute
\* whenever it has its turn is executed at last.  The compare_and_swap of a
\* spinning call is such a statement when the lock is free again and again.
\* the tasks there are to switch between
FairTasks == 2
NextFair ==
    \/ init_first_task
    \/ \E func \in Funcs : Cardinality(DOMAIN list) < FairTasks /\ spawn(func)
    \/ \E id \in TaskIds : set_runstate(id, BLOCKED)
    \/ context_switch_steps
    \/ \E i \in DOMAIN others : interleave(i)

FairScheduling ==
    /\ \A i \in 1 .. (MaxCalls - 1) : WF_task_vars(interleave(i))
    /\ SF_task_vars(context_switch_lock)
    /\ SF_task_vars(context_switch_check)
    /\ SF_task_vars(context_switch_runstates)
    /\ SF_task_vars(context_switch_store)
    /\ SF_task_vars(context_switch_unlock)
    /\ SF_task_vars(switch_to)

SpecFair == Init /\ [][NextFair]_task_vars /\ FairScheduling

\* Page tables as the boot code hands them over, with 1GiB and 2MiB pages in
\* them: an entry is unused, leads to a table, or (P3, P2) maps a huge page
\* whose start frame is aligned to the pages it spans; P1 entries map frames
\* outside the frame allocator's pool.  Entries below an entry that leads to
\* no table do not exist.
BootTableEntry == EntrySet(NumFrames + 4, {"PRESENT", "WRITABLE"})
BootHugeEntry(frame) == EntrySet(frame, {"PRESENT", "WRITABLE", "HUGE"})
BootTables ==
    LET BootP3Entries ==
            {UnusedEntry, BootTableEntry}
                \cup {BootHugeEntry(k * ENTRIES_PER_PAGE_TABLE * ENTRIES_PER_PAGE_TABLE) :
                        k \in {0, 1}}
        BootP2Entries ==
            {UnusedEntry, BootTableEntry}
                \cup {BootHugeEntry(k * ENTRIES_PER_PAGE_TABLE) : k \in {0, 1}}
        BootP1Entries ==
            {UnusedEntry} \cup {EntrySet(f, {"PRESENT", "WRITABLE"}) : f \in DeviceFrames}
    IN  { t \in [l4 : [{K4(p) : p \in Pages} -> {UnusedEntry, BootTableEntry}],
                 l3 : [{K3(p) : p \in Pages} -> BootP3Entries],
                 l2 : [{K2(p) : p \in Pages} -> BootP2Entries],
                 l1 : [{K1(p) : p \in Pages} -> BootP1Entries]] :
            \A p \in Pages :
                /\ ~next_table(t.l4[K4(p)]) => is_unused(t.l3[K3(p)])
                /\ ~next_table(t.l3[K3(p)]) => is_unused(t.l2[K2(p)])
                /\ ~next_table(t.l2[K2(p)]) => is_unused(t.l1[K1(p)]) }

\* a call of translate_page; it returns when its assert!s hold
TranslatePage(page) ==
    /\ translate_page_asserts(tables, page)
    /\ last' = [Last("translate_page", "", NoHandle, NoHandle, NoHandle, NoFlags)
                    EXCEPT !.arg = [page |-> page, frame |-> translate_page(tables, page)]]
    /\ UNCHANGED <<tables, next_frame, frame_allocator_ref, reserved, handles, mem,
                   BROADCAST_TLB_SHOOTDOWN_FUNC, bm_map, task_vars>>

InitTranslate ==
    /\ tables \in BootTables
    /\ next_frame = 0
    /\ frame_allocator_ref = FALSE
    /\ reserved = {}
    /\ handles = {}
    /\ mem = [f \in Frames |-> 0]
    /\ last = Last("init", "", NoHandle, NoHandle, NoHandle, NoFlags)
    /\ BROADCAST_TLB_SHOOTDOWN_FUNC = FALSE
    /\ bm_map = FALSE
    /\ TaskInit

\* Translation of the pages of the boot page tables.
NextTranslate == \E page \in Pages : TranslatePage(page)

SpecTranslate == InitTranslate /\ [][NextTranslate]_vars

\* Mappings of pages the virtual-page allocator handed out: every page that is
\* mapped was reserved by an AllocatedPages when it was.
NextAlloc ==
    \/ \E p4 \in P4Frames, n \in 1 .. MaxRange, flags \in FlagChoices :
          \E ap \in AllocatablePages(n) : map_allocated_pages(p4, ap, flags)
    \/ \E n \in 1 .. MaxRange, frames \in FrameRangeChoices :
          \E ap \in AllocatablePages(n) :
             map_allocated_pages_to(from_current, ap, frames, {"PRESENT", "WRITABLE"})
    \/ \E self \in handles, mp \in handles : merge(self, mp)
    \/ \E mp \in handles : drop(mp)
    \/ init_frame_allocator_ref

SpecAlloc == Init /\ [][NextAlloc]_vars

\* ================================================================ claims
\* a map call of the internal_map family returned a handle
MapSucceeded == last.op \in MapOps /\ last.err = ""
\* the page offsets k the translations are compared at
OffsetSamples == {0, 1, PAGE_SIZE \div 2, PAGE_SIZE - 1}
\* the P1 entry the walk P4 -> P3 -> P2 -> P1 of the page reaches is present
WalkFindsPresent(t, page) ==
    WalkToP1(t, page) /\ pointed_frame(t.l1[K1(page)]) # NoFrame

\* C1: after a successful map / map_pages / map_allocated_pages, every page of
\* the returned handle translates to a frame (translate_page is Some), and the
\* address p.start + k translates to frame.start + k.
C1_MapThenTranslate ==
    MapSucceeded =>
        \A p \in RangePages(last.h.pages) :
            LET frame == translate_page(tables, p)
            IN  /\ frame # NoFrame
                /\ \A k \in OffsetSamples :
                      translate(tables, p * PAGE_SIZE + k) = frame * PAGE_SIZE + k
C1_Witness ==
    MapSucceeded /\ last.op = "map_pages" /\ size_in_pages(last.h.pages) = 2

\* C2 as stated: after any drop of a handle, none of its pages translates.
C2_DropAlwaysUnmaps ==
    last.op = "drop" =>
        \A p \in RangePages(last.a.pages) : translate_page(tables, p) = NoFrame
\* C2 amended: after the drop of a handle whose page_table_p4 is the installed
\* P4, with the frame allocator reference available, none of its pages translates.
C2_DropUnmapsUnderItsP4 ==
    (last.op = "drop" /\ last.a.page_table_p4 = get_current_p4 /\ frame_allocator_ref) =>
        \A p \in RangePages(last.a.pages) : translate_page(tables, p) = NoFrame
C2_Witness ==
    /\ last.op = "drop" /\ last.a.page_table_p4 = get_current_p4 /\ frame_allocator_ref
    /\ size_in_pages(last.a.pages) = 2

\* C3 as stated: for every live handle H and page p of H the walk reaches a
\* present P1 entry whose flags equal H.flags.
C3_EntryFlagsEqualHandleFlags ==
    \A mp \in handles : \A p \in RangePages(mp.pages) :
        WalkFindsPresent(tables, p) /\ tables.l1[K1(p)].flags = mp.flags
\* C3 amended: ... a present P1 entry whose flags equal H.flags | PRESENT.
C3_EntryFlagsAreHandleFlagsPlusPresent ==
    \A mp \in handles : \A p \in RangePages(mp.pages) :
        WalkFindsPresent(tables, p)
            /\ tables.l1[K1(p)].flags = mp.flags \cup {"PRESENT"}
C3_Witness ==
    /\ last.op = "remap" /\ last.err = "" /\ last.h.flags # last.a.flags
    /\ last.h \in handles /\ size_in_pages(last.h.pages) = 2

\* C4: the handle a map operation returns records the P4 frame of the table the
\* operation wrote, which is the active table the recursive P4 address reaches,
\* whichever frame the Mapper was built from.
C4_HandleRecordsWrittenP4 ==
    MapSucceeded => last.h.page_table_p4 = get_current_p4

\* the error a mutable view returns for a handle that is not writable
NotWritableErr(op) ==
    IF op = "as_type_mut" THEN "as_type_mut(): MappedPages were not writable"
    ELSE "as_slice_mut(): MappedPages were not writable"
MutViewOps == {"as_type_mut", "as_slice_mut"}

\* C5: as_type_mut / as_slice_mut on a handle whose flags lack WRITABLE return
\* the "MappedPages were not writable" error whatever the offset and length,
\* and the call leaves the handles, the page-table entries (which still lack
\* WRITABLE on the handle's pages) and the mapped memory as they were.
C5_NotWritableMutViewFails ==
    [][ (last'.op \in MutViewOps /\ ~is_writable(last'.h.flags)) =>
          /\ last'.err = NotWritableErr(last'.op)
          /\ handles' = handles /\ last'.h \in handles'
          /\ tables' = tables
          /\ mem' = mem
          /\ \A p \in RangePages(last'.h.pages) :
                "WRITABLE" \notin tables'.l1[K1(p)].flags ]_vars
C5_Witness ==
    /\ last.op = "as_type_mut" /\ ~is_writable(last.h.flags)
    /\ last.arg.offset = PAGE_SIZE
    /\ last.err = NotWritableErr("as_type_mut")
    /\ \E f \in Frames : mem[f] # 0

\* C6: after a successful A.merge(B), A's range is [A.start, B.end] with
\* A.start as before the call, and A's flags and page_table_p4 are as before.
C6_MergeRange ==
    (last.op = "merge" /\ last.err = "") =>
        /\ last.h.pages = PageRangeNew(last.a.pages.start, last.b.pages.end)
        /\ last.h.flags = last.a.flags
        /\ last.h.page_table_p4 = last.a.page_table_p4
        /\ last.h \in handles
C6_Witness ==
    /\ last.op = "merge" /\ last.err = ""
    /\ size_in_pages(last.a.pages) >= 1 /\ size_in_pages(last.b.pages) >= 1
    /\ last.a.allocated

\* the conditions under which merge is to succeed
MergePreconditions(A, B) ==
    /\ B.page_table_p4 = A.page_table_p4
    /\ B.flags = A.flags
    /\ B.pages.start = A.pages.end + 1
    /\ B.allocated = A.allocated

\* C7: A.merge(B) succeeds exactly when B has A's page_table_p4 and flags,
\* B.start = A.end + 1 and both are allocated or both are not; otherwise it
\* returns an error, B is handed back as it was and not dropped (its pages stay
\* mapped and reserved), and A is as it was.
C7_MergeSucceedsExactlyWhen ==
    [][ last'.op = "merge" =>
          /\ (last'.err = "") <=> MergePreconditions(last'.a, last'.b)
          /\ last'.err # "" =>
                /\ last'.b \in handles' /\ last'.a \in handles'
                /\ last'.h = last'.a
                /\ handles' = handles
                /\ tables' = tables
                /\ reserved' = reserved ]_vars
C7_Witness ==
    /\ last.op = "merge"
    /\ last.err = "mappings were mapped with different flags"
    /\ last.b.pages.start = last.a.pages.end + 1
    /\ last.b \in handles /\ last.a \in handles

\* C8: merge changes no page-table entry and deallocates no page: every page
\* either handle had reserved in the virtual-page allocator before the call is
\* still reserved after it.
C8_MergeNoRemapNoDealloc ==
    [][ last'.op = "merge" =>
          /\ tables' = tables
          /\ \A p \in RangePages(last'.a.pages) \cup RangePages(last'.b.pages) :
                p \in reserved => p \in reserved' ]_vars

\* the contents a load from the page returns
PageContent(m, t, page) == m[LoadFrame(t, page)]

\* C9: a successful deep_copy of H returns H' of the same size whose pages are
\* disjoint from H's and whose contents equal H's page by page; H is still
\* live with its range and flags, and its page-table entries and contents are
\* as before the call.
C9_DeepCopySameContents ==
    [][ (last'.op = "deep_copy" /\ last'.err = "") =>
          LET H == last'.a
              Hc == last'.h
              size == size_in_pages(H.pages)
          IN  /\ H \in handles /\ H \in handles' /\ Hc \in handles' /\ Hc # H
              /\ size_in_pages(Hc.pages) = size /\ size >= 1
              /\ RangePages(Hc.pages) \cap RangePages(H.pages) = {}
              /\ \A i \in 0 .. (size - 1) :
                    /\ LoadFrame(tables', Hc.pages.start + i) # NoFrame
                    /\ LoadFrame(tables', H.pages.start + i) # NoFrame
                    /\ LoadFrame(tables', Hc.pages.start + i)
                          # LoadFrame(tables', H.pages.start + i)
                    /\ PageContent(mem', tables', Hc.pages.start + i)
                          = PageContent(mem', tables', H.pages.start + i)
              /\ \A p \in RangePages(H.pages) :
                    /\ tables'.l1[K1(p)] = tables.l1[K1(p)]
                    /\ LoadFrame(tables', p) = LoadFrame(tables, p)
                    /\ PageContent(mem', tables', p) = PageContent(mem, tables, p) ]_vars
C9_Witness ==
    /\ last.op = "deep_copy" /\ last.err = ""
    /\ \A p \in RangePages(last.a.pages) : PageContent(mem, tables, p) = 1
    /\ \A p \in RangePages(last.h.pages) : PageContent(mem, tables, p) = 1

\* the flags a deep_copy was asked for: new_flags if given, else the source's
RequestedFlags == IF last.arg.some THEN last.arg.flags ELSE last.a.flags

\* C10: the handle a successful deep_copy returns has the requested flags, and
\* so have the P1 entries of its pages (with PRESENT), also when the requested
\* flags are not writable.
C10_DeepCopyHasRequestedFlags ==
    (last.op = "deep_copy" /\ last.err = "") =>
        /\ last.h.flags = RequestedFlags
        /\ \A p \in RangePages(last.h.pages) :
              tables.l1[K1(p)].flags = RequestedFlags \cup {"PRESENT"}

\* what a successful remap to f is to leave of the handle and its entries
RemapPostcondition ==
    LET f == last'.arg.flags
        H == last'.h
    IN  /\ H.flags = f
        /\ H.pages = last'.a.pages /\ H.page_table_p4 = last'.a.page_table_p4
        /\ \A p \in RangePages(H.pages) :
              /\ translate_page(tables', p) = translate_page(tables, p)
              /\ tables'.l1[K1(p)].flags = f \cup {"PRESENT"}
        /\ remap_result(tables', H, f) = [t |-> tables', mp |-> H, err |-> "", ev |-> <<>>]

\* C11 as stated: after any successful H.remap(f) the translations of H's
\* pages are as before, their P1 entries have flags f | PRESENT, H.flags = f,
\* and a second H.remap(f) changes nothing.
C11_RemapSetsFlags ==
    [][ (last'.op = "remap" /\ last'.err = "") => RemapPostcondition ]_vars
\* C11 amended: the same for a handle that is not empty; every page of H
\* translated before the call, and translates to the same frame after it.
C11_RemapOfNonEmptySetsFlags ==
    [][ (last'.op = "remap" /\ last'.err = "" /\ size_in_pages(last'.a.pages) > 0) =>
          /\ RemapPostcondition
          /\ \A p \in RangePages(last'.h.pages) : translate_page(tables, p) # NoFrame
          /\ last'.h \in handles' ]_vars
C11_Witness ==
    /\ last.op = "remap" /\ last.err = ""
    /\ is_writable(last.a.flags) /\ last.arg.flags = {"NO_EXECUTE"}
    /\ last.a.allocated /\ size_in_pages(last.a.pages) = 2

\* the conditions under which drop goes on to unmap
DropUnmaps(H) ==
    /\ size_in_pages(H.pages) > 0
    /\ get_current_p4 = H.page_table_p4
    /\ frame_allocator_ref

\* C12: the drop of a handle changes page-table entries only when the handle
\* is not empty, the installed P4 is the handle's page_table_p4 and the frame
\* allocator reference is available; in every other case (an empty handle,
\* another P4, no allocator) no entry changes; drop never reports an error.
C12_DropUnmapsOnlyWhen ==
    [][ last'.op = "drop" =>
          /\ last'.err = ""
          /\ ~DropUnmaps(last'.a) => tables' = tables
          /\ \A p \in Pages :
                tables'.l1[K1(p)] # tables.l1[K1(p)] =>
                    DropUnmaps(last'.a) /\ p \in RangePages(last'.a.pages)
          /\ last'.a \notin handles' ]_vars
C12_Witness ==
    /\ last.op = "drop" /\ last.a.page_table_p4 = OtherP4 /\ frame_allocator_ref
    /\ size_in_pages(last.a.pages) >= 1
    /\ \A p \in RangePages(last.a.pages) : translate_page(tables, p) # NoFrame

\* the runstates context_switch(self, next) is to leave
RunstatesUpdated(l, self, next) ==
    l[self].runstate = RUNNABLE /\ l[next].runstate = RUNNING

\* C13: context_switch(current, next) leaves current RUNNABLE, next RUNNING
\* and CURRENT_TASK = next.id; inside the call the current-task id changes
\* only after both runstates were updated, and the register switch is made
\* only after the id was published.
C13_ContextSwitchOrder ==
    [][ /\ (~Idle /\ CURRENT_TASK' # CURRENT_TASK) =>
              /\ RunstatesUpdated(list, cs.self, cs.next)
              /\ CURRENT_TASK = cs.self /\ CURRENT_TASK' = cs.next
              /\ page_table_register' = page_table_register /\ cs'.pc # "idle"
        /\ (cs.pc = "unlocked" /\ cs'.pc = "idle") =>
              /\ RunstatesUpdated(list, cs.self, cs.next)
              /\ CURRENT_TASK = cs.next
              /\ RunstatesUpdated(list', cs.self, cs.next)
              /\ CURRENT_TASK' = list'[cs.next].id
              /\ tlast'.op = "context_switch" /\ tlast'.err = "" ]_task_vars
C13_Witness ==
    /\ Idle /\ tlast.op = "context_switch" /\ tlast.err = ""
    /\ tlast.self = 0 /\ tlast.id = 1
    /\ RunstatesUpdated(list, 0, 1) /\ CURRENT_TASK = 1

\* the tasks whose runstate is RUNNING
RunningTasks == { id \in DOMAIN list : list[id].runstate = RUNNING }

\* C14: at most one task has runstate RUNNING, in every state init_first_task,
\* new_task, spawn and context_switch of the current task lead to.
C14_AtMostOneRunning == Cardinality(RunningTasks) <= 1
C14_Witness ==
    /\ Idle /\ tlast.op = "context_switch" /\ tlast.err = "" /\ tlast.self # 0
    /\ Cardinality(RunningTasks) = 1
    /\ Cardinality(DOMAIN list) >= 3

\* C15: a context_switch whose next is BLOCKED, EXITED or already RUNNING stops
\* at its runstate check: no runstate and no current-task id changes.
C15_NoSwitchToBlockedOrExited ==
    [][ (cs.pc = "locked" /\ list[cs.next].runstate.tag \in {"BLOCKED", "EXITED", "RUNNING"}) =>
          /\ cs'.pc = "panicked"
          /\ list' = list
          /\ CURRENT_TASK' = CURRENT_TASK ]_task_vars

\* C16: after init_first_task the list holds task 0, the current-task id is 0
\* and the runstate of task 0 is RUNNING.
C16_FirstTaskIsRunning ==
    (Idle /\ tlast.op = "init_first_task" /\ tlast.err = "") =>
        /\ 0 \in DOMAIN list
        /\ CURRENT_TASK = 0
        /\ list[0].runstate = RUNNING

\* C17: after spawn(f) the new task is in the list, RUNNABLE, with a stack of
\* 16384 bytes; its saved stack pointer is base + 16384 - 8, the word there is
\* the address of f, and its page-table base is that of the task that was
\* current at the call.
C17_SpawnedTask ==
    (Idle /\ tlast.op = "spawn" /\ tlast.err = "") =>
        /\ tlast.id \in DOMAIN list
        /\ LET t == list[tlast.id]
           IN  /\ t.id = tlast.id
               /\ t.runstate = RUNNABLE
               /\ t.kstack.some /\ t.kstack.len = 16384
               /\ t.arch_state.stack = t.kstack.base + 16384 - 8
               /\ t.kstack.words[16384 - 8] = tlast.func
               /\ tlast.self \in DOMAIN list
               /\ t.arch_state.page_table = list[tlast.self].arch_state.page_table
C17_Witness ==
    /\ Idle /\ tlast.op = "spawn" /\ tlast.err = "" /\ tlast.self # 0
    /\ list[tlast.id].kstack.words[16384 - 8] \in Funcs

\* C18: once init_first_task has run, the page-table base in the architecture
\* state of the task the current-task id names is the value of the page-table
\* register, in every state spawn and context_switch lead to.
C18_CurrentPageTableIsRegister ==
    init_first_task_called =>
        /\ CURRENT_TASK \in DOMAIN list
        /\ list[CURRENT_TASK].arch_state.page_table = page_table_register
C18_Witness ==
    /\ cs.pc = "published" /\ CURRENT_TASK = 2 /\ cs.self = 1
    /\ list[CURRENT_TASK].arch_state.page_table = BootPageTable

\* C19: a successful new_task returns an id that was no key of the list, adds
\* that one entry and changes no other, and the new task is INITING, without
\* a stack, with the default architecture state and the name "task<id>".
C19_NewTaskAddsFreshTask ==
    [][ (tlast'.op = "new_task" /\ tlast'.err = "") =>
          LET id == tlast'.id
          IN  /\ id \notin DOMAIN list
              /\ DOMAIN list' = (DOMAIN list) \cup {id}
              /\ \A k \in DOMAIN list : list'[k] = list[k]
              /\ list'[id] = [id |-> id, runstate |-> INITING, kstack |-> NoStack,
                              arch_state |-> ArchTaskStateNew, name |-> <<"task", id>>] ]_task_vars
C19_Witness ==
    /\ tlast.op = "new_task" /\ tlast.err = "" /\ tlast.id = 1
    /\ 2 \in DOMAIN list /\ list[2].runstate = RUNNABLE

\* C20: new_task (also inside spawn) never returns a task with id 0 and never
\* one with an id of MAX_NR_TASKS or more, also after the id counter wrapped.
C20_NewTaskIdInRange ==
    (tlast.op \in {"new_task", "spawn"} /\ tlast.err = "") =>
        (tlast.id # 0 /\ tlast.id < MAX_NR_TASKS)

\* the ids no task of the list has
FreeIds == TaskIds \ DOMAIN list

\* C21: new_task returns, for every list and every value of the counter: with
\* an id in [1, MAX_NR_TASKS) unused it returns a task with an id that was
\* free; it returns the error "unable to find free id for new task" exactly
\* when the scan finds no free id, and then the list is as it was.
C21_NewTaskFindsFreeId ==
    [][ tlast'.op = "new_task" =>
          /\ (\E id \in 1 .. (MAX_NR_TASKS - 1) : id \in FreeIds) =>
                /\ tlast'.err = ""
                /\ tlast'.id \in FreeIds
                /\ DOMAIN list' = (DOMAIN list) \cup {tlast'.id}
          /\ tlast'.err # "" =>
                /\ tlast'.err = "unable to find free id for new task"
                /\ FreeIds = {}
                /\ list' = list
          /\ FreeIds = {} => tlast'.err # "" ]_task_vars
C21_Witness ==
    /\ tlast.op = "new_task"
    /\ tlast.err = "unable to find free id for new task"
    /\ DOMAIN list = TaskIds

\* the entries of the P4, P3 and P2 tables
UpperEntries ==
    { tables.l4[key] : key \in DOMAIN tables.l4 }
        \cup { tables.l3[key] : key \in DOMAIN tables.l3 }
        \cup { tables.l2[key] : key \in DOMAIN tables.l2 }

\* C22: after any sequence of map calls with any flags, no P4, P3 or P2 entry
\* has the HUGE bit set, and every page of a live handle is reached through
\* the walk to its P1 entry.
C22_NoHugeEntryCreated ==
    /\ \A entry \in UpperEntries : ~is_huge(entry.flags)
    /\ \A mp \in handles : mp.page_table_p4 = get_current_p4 =>
          \A p \in RangePages(mp.pages) : WalkToP1(tables, p)

\* the P4, P3 and P2 entries on the walk to the P1 entry of a page
WalkEntries(t, page) == { t.l4[K4(page)], t.l3[K3(page)], t.l2[K2(page)] }

\* C23: in every reachable state, the P4, P3 and P2 entries on the walk to a
\* P1 entry of a live handle are present and have NO_EXECUTE cleared, whatever
\* the flags of the mapping.
C23_UpperEntriesPresentExecutable ==
    \A mp \in handles : \A p \in RangePages(mp.pages) :
        \A entry \in WalkEntries(tables, p) :
            "PRESENT" \in entry.flags /\ "NO_EXECUTE" \notin entry.flags
C23_Witness ==
    \E mp \in handles :
        /\ "NO_EXECUTE" \in mp.flags
        /\ size_in_pages(mp.pages) = 2
        /\ \A p \in RangePages(mp.pages) :
              "NO_EXECUTE" \in tables.l1[K1(p)].flags /\ WalkFindsPresent(tables, p)

\* the P1 entry of the page is in use
InUse(page) == ~is_unused(tables.l1[K1(page)])
\* what the loops of the map calls on the given page, or on a range that
\* starts with it, leave: with frames from the frame allocator (map, map_pages) ...
AllocatingMapsOn(page) ==
    { internal_map(PageRangeNew(page, page), flags) : flags \in FlagChoices }
        \cup { internal_map(pages, flags) :
                 pages \in { r \in RangeChoices : r.start = page }, flags \in FlagChoices }
\* ... and with the frames the caller gives (map_to, map_frames)
GivenFrameMapsOn(page) ==
    { internal_map_to(PageRangeNew(page, page), PageRangeNew(frame, frame), flags) :
         frame \in DeviceFrames, flags \in FlagChoices }
        \cup { internal_map_to(PageRangeNew(page, page - 1 + size_in_pages(frames)),
                              frames, flags) :
                 frames \in { r \in FrameRangeChoices :
                                page - 1 + size_in_pages(r) \in Pages },
                 flags \in FlagChoices }
\* the call left the entry and the translation of the page as they are
EntryKept(st, page) ==
    /\ ~st.panic
    /\ st.t.l1[K1(page)] = tables.l1[K1(page)]
    /\ translate_page(st.t, page) = translate_page(tables, page)
\* a map call that returns an error returns no handle
FailedMapReturnsNoHandle ==
    (last'.op \in MapOps /\ last'.err # "") => (last'.h = NoHandle /\ handles' = handles)

AllocatingMapOps == {"map", "map_pages", "map_allocated_pages"}

\* C25: when map, map_pages or map_allocated_pages fails because the frame
\* allocator has no frame left, the call has installed no P1 entry: every P1
\* entry is as it was before the call.
C25_OutOfMemoryInstallsNothing ==
    [][ (last'.op \in AllocatingMapOps
            /\ last'.err = "Mapper::internal_map(): couldn't allocate new frame, out of memory!") =>
          tables'.l1 = tables.l1 ]_vars

\* the calls that map pages to the frames the caller gives
GivenFrameMapOps == {"map_to", "map_frames", "map_allocated_pages_to"}
CountMismatch == "map_to_internal(): page count must equal frame count"
\* the i-th page of the range translates to the i-th frame of the frame range
Lockstep(t, pages, frames) ==
    \A i \in 0 .. (size_in_pages(pages) - 1) :
        translate_page(t, pages.start + i) = frames.start + i

\* C26: map_to, map_frames and map_allocated_pages_to map pages and frames in
\* lockstep: on success the i-th page of the range translates to the i-th
\* frame of the frame range; when the page count differs from the frame count
\* the call fails with the count-mismatch error, with every page-table entry
\* and the frame allocator as they were.
C26_MapToLockstep ==
    /\ [](\A pages \in RangeChoices, frames \in FrameRangeChoices, flags \in FlagChoices :
            LET st == internal_map_to(pages, frames, flags)
            IN  /\ (~st.panic /\ st.err = "") => Lockstep(st.t, pages, frames)
                /\ size_in_pages(pages) # size_in_pages(frames) =>
                      /\ ~st.panic /\ st.err = CountMismatch
                      /\ st.t = tables /\ st.nf = next_frame)
    /\ [][ last'.op \in GivenFrameMapOps =>
             /\ last'.err = "" =>
                   /\ last'.h \in handles'
                   /\ \E frames \in FrameRangeChoices :
                         /\ size_in_pages(frames) = size_in_pages(last'.h.pages)
                         /\ Lockstep(tables', last'.h.pages, frames)
             /\ last'.err = CountMismatch =>
                   /\ tables' = tables /\ next_frame' = next_frame
                   /\ handles' = handles /\ last'.h = NoHandle ]_vars
C26_Witness ==
    /\ last.op = "map_allocated_pages_to" /\ last.err = CountMismatch
    /\ \E mp \in handles :
          /\ size_in_pages(mp.pages) = 2
          /\ \E frames \in FrameRangeChoices : Lockstep(tables, mp.pages, frames)

\* for each page of the range in turn, the write of its P1 entry and then the
\* invalidation of its TLB entry
PageEvents(pages) ==
    [i \in 1 .. (2 * size_in_pages(pages)) |->
        IF i % 2 = 1 THEN EntryWrite(pages.start + (i - 1) \div 2)
        ELSE TlbFlush(pages.start + (i - 2) \div 2)]
\* the call of the broadcaster with the whole range, after the pages
BroadcastIf(installed, pages) == IF installed THEN <<Broadcast(pages)>> ELSE <<>>
\* the remap is no no-op: the handle has pages and the flags are new
RemapActs(mp, new_flags) == size_in_pages(mp.pages) > 0 /\ new_flags # mp.flags

\* C27 as stated: in remap and unmap the TLB entry of each page is
\* invalidated right after the page's P1 entry is written and before the next
\* page's entry is touched; the shootdown broadcaster, when installed, is called
\* once per operation with the whole range after all the writes; a remap with
\* the flags the handle has, or of an empty handle, writes nothing, flushes
\* nothing and does not call the broadcaster.
C27_TlbFlushOrder ==
    [][ /\ last'.op = "remap" =>
              IF RemapActs(last'.a, last'.arg.flags)
              THEN last'.ev = PageEvents(last'.a.pages)
                        \o BroadcastIf(BROADCAST_TLB_SHOOTDOWN_FUNC, last'.a.pages)
              ELSE last'.ev = <<>> /\ tables' = tables
        /\ (last'.op = "drop" /\ DropUnmaps(last'.a)) =>
              last'.ev = PageEvents(last'.a.pages)
                  \o BroadcastIf(BROADCAST_TLB_SHOOTDOWN_FUNC, last'.a.pages) ]_vars
\* C27 amended: as stated, but unmap calls the broadcaster only in a kernel
\* built without cfg(bm_map).
C27_TlbFlushOrderByBuild ==
    [][ /\ last'.op = "remap" =>
              IF RemapActs(last'.a, last'.arg.flags)
              THEN last'.ev = PageEvents(last'.a.pages)
                        \o BroadcastIf(BROADCAST_TLB_SHOOTDOWN_FUNC, last'.a.pages)
              ELSE last'.ev = <<>> /\ tables' = tables
        /\ (last'.op = "drop" /\ DropUnmaps(last'.a)) =>
              last'.ev = PageEvents(last'.a.pages)
                  \o BroadcastIf(BROADCAST_TLB_SHOOTDOWN_FUNC /\ ~bm_map, last'.a.pages) ]_vars
C27_Witness ==
    /\ last.op = "remap" /\ last.err = ""
    /\ BROADCAST_TLB_SHOOTDOWN_FUNC
    /\ size_in_pages(last.a.pages) = 2
    /\ Len(last.ev) = 5

ViewOps == {"as_type", "as_type_mut", "as_slice", "as_slice_mut", "as_func"}
\* the number of bytes of the view asked for by the last call
RequestedBytes ==
    IF last.op \in {"as_slice", "as_slice_mut"} THEN last.arg.length * SIZE_OF_T
    ELSE IF last.op = "as_func" THEN SIZE_OF_F
    ELSE SIZE_OF_T
PermissionErrs ==
    { "as_type_mut(): MappedPages were not writable",
      "as_slice_mut(): MappedPages were not writable",
      "as_func(): MappedPages were not executable" }

\* C28: as_type, as_type_mut, as_slice, as_slice_mut and as_func return a view
\* only if offset + size <= pages.size() * 4096, for every offset and length of
\* the machine word; a call the permissions allow returns the bounds error
\* otherwise.
C28_ViewInsideMapping ==
    last.op \in ViewOps =>
        /\ last.err = "" =>
              last.arg.offset + RequestedBytes <= size_in_bytes(last.h.pages)
        /\ (last.arg.offset + RequestedBytes > size_in_bytes(last.h.pages)
                /\ last.err \notin PermissionErrs) =>
              last.err \in {BoundsErrType, BoundsErrSlice}

NotExecutableErr == "as_func(): MappedPages were not executable"

\* C29: the permission checks of the views go by the flags the handle has
\* now: a successful remap leaves the handle with the new flags; as_func on a
\* handle whose flags are not executable fails with "MappedPages were not
\* executable", and succeeds within bounds when they are executable;
\* as_type_mut and as_slice_mut fail on a handle whose flags are not writable.
C29_ViewPermissionsFollowFlags ==
    [][ /\ (last'.op = "remap" /\ last'.err = "" /\ RemapActs(last'.a, last'.arg.flags)) =>
              /\ last'.h.flags = last'.arg.flags
              /\ last'.h \in handles' /\ last'.a \notin handles'
        /\ last'.op = "as_func" =>
              /\ last'.h \in handles
              /\ IF ~is_executable(last'.h.flags) THEN last'.err = NotExecutableErr
                 ELSE (last'.arg.offset + SIZE_OF_F <= size_in_bytes(last'.h.pages)) =>
                         last'.err = ""
        /\ (last'.op \in MutViewOps /\ ~is_writable(last'.h.flags)) =>
              /\ last'.h \in handles
              /\ last'.err = NotWritableErr(last'.op) ]_vars
\* as_func succeeds on a mapping that was written through while writable
\* and then remapped executable and not writable
C29_Witness ==
    /\ last.op = "as_func" /\ last.err = ""
    /\ last.h.flags = {"PRESENT"}
    /\ PageContent(mem, tables, last.h.pages.start) = 1

\* the call is between its acquisition of the lock and its release of it
InCritical(c) == c.pc \in {"locked", "checked", "updated", "published", "panicked"}
\* the number of calls in progress in their critical sections
CallsInCritical ==
    Cardinality({ i \in DOMAIN others : InCritical(others[i]) })
        + (IF InCritical(cs) THEN 1 ELSE 0)

\* C30: with several context_switch calls interleaved, at most one of them is
\* between its acquisition and its release of the lock at any time (and the
\* lock is held exactly when one is), so the runstate check, the runstate
\* updates and the store of CURRENT_TASK of one call are not interleaved with
\* those of another.
C30_SwitchLockMutualExclusion ==
    /\ CallsInCritical <= 1
    /\ CONTEXT_SWITCH_LOCK <=> (CallsInCritical = 1)
C30_Witness ==
    /\ cs.pc = "updated"
    /\ \E i \in DOMAIN others : others[i].pc = "spin" /\ others[i].next # cs.next
    /\ \E i \in DOMAIN others : others[i].pc = "unlocked"

\* C31: context_switch releases the switch lock after it has published the
\* current-task id and before the register switch: the step that releases the
\* lock is taken by the call that has stored next's id in CURRENT_TASK, and
\* changes neither the id nor the registers; the register switch starts and
\* ends with the lock free.
C31_LockReleasedBeforeSwitch ==
    [][ /\ (CONTEXT_SWITCH_LOCK /\ ~CONTEXT_SWITCH_LOCK') =>
              /\ cs.pc = "published" /\ cs'.pc = "unlocked"
              /\ CURRENT_TASK = list[cs.next].id /\ CURRENT_TASK' = CURRENT_TASK
              /\ page_table_register' = page_table_register
        /\ (cs.pc = "unlocked" /\ cs'.pc = "idle") =>
              /\ ~CONTEXT_SWITCH_LOCK /\ ~CONTEXT_SWITCH_LOCK'
              /\ CURRENT_TASK = list[cs.next].id ]_task_vars
C31_Witness ==
    /\ cs.pc = "unlocked" /\ ~CONTEXT_SWITCH_LOCK
    /\ CURRENT_TASK = list[cs.next].id /\ cs.self # 0
    /\ page_table_register # list[cs.next].arch_state.page_table

\* the frame translate_page returned for the page it was called with
TranslatedPage == last.arg.page
TranslatedFrame == last.arg.frame
\* the entry is present (an absent entry points to no frame)
EntryPresent(entry) == "PRESENT" \in entry.flags
\* the entry is present and leads to a table
LeadsToTable(entry) == EntryPresent(entry) /\ "HUGE" \notin entry.flags

\* C32: translate_page(page) returns None when the P4 entry is absent; for a
\* present P3 entry marked HUGE it returns the frame base + p2_index * 512 +
\* p1_index; for a present P2 entry marked HUGE it returns base + p1_index;
\* otherwise it returns the frame of the P1 entry, or None when that entry is
\* absent (or an entry on the way to it is).
C32_TranslatePageWalk ==
    last.op = "translate_page" =>
        LET e4 == tables.l4[K4(TranslatedPage)]
            e3 == tables.l3[K3(TranslatedPage)]
            e2 == tables.l2[K2(TranslatedPage)]
            e1 == tables.l1[K1(TranslatedPage)]
        IN  IF ~EntryPresent(e4) THEN TranslatedFrame = NoFrame
            ELSE IF EntryPresent(e3) /\ "HUGE" \in e3.flags
            THEN TranslatedFrame =
                    e3.frame + p2_index(TranslatedPage) * 512 + p1_index(TranslatedPage)
            ELSE IF LeadsToTable(e3) /\ EntryPresent(e2) /\ "HUGE" \in e2.flags
            THEN TranslatedFrame = e2.frame + p1_index(TranslatedPage)
            ELSE IF LeadsToTable(e3) /\ LeadsToTable(e2) /\ EntryPresent(e1)
            THEN TranslatedFrame = e1.frame
            ELSE TranslatedFrame = NoFrame
\* a page in the second 2MiB of a 1GiB page that starts at a frame other than 0
C32_Witness ==
    /\ last.op = "translate_page"
    /\ p2_index(TranslatedPage) = 1 /\ p1_index(TranslatedPage) = 1
    /\ "HUGE" \in tables.l3[K3(TranslatedPage)].flags
    /\ TranslatedFrame = ENTRIES_PER_PAGE_TABLE * ENTRIES_PER_PAGE_TABLE
                            + ENTRIES_PER_PAGE_TABLE + 1

\* the pages the virtual-page allocator has free to hand out
FreePages == Pages \ reserved
\* the page is present in the page table
PagePresent(page) == translate_page(tables, page) # NoFrame

\* C33: no virtual page is at once free in the virtual-page allocator and
\* present in the page table: a page's AllocatedPages reservation is released
\* only after its P1 entry was set unused, also by a drop that returns early,
\* a map_allocated_pages / map_allocated_pages_to that fails and a merge of
\* allocated handles.
C33_FreePagesAreUnmapped ==
    \A page \in FreePages : ~PagePresent(page)

\* the two handles cover no page in common
RangesDisjoint(a, b) == RangePages(a.pages) \cap RangePages(b.pages) = {}

\* C34: after any sequence of map operations, merge, remap, deep_copy and
\* drop, the page ranges of any two distinct live MappedPages handles under the
\* same P4 are disjoint.
C34_LiveHandlesDisjoint ==
    \A a \in handles, b \in handles :
        (a # b /\ a.page_table_p4 = b.page_table_p4) => RangesDisjoint(a, b)
\* a page was mapped next to the page of a live handle under the same P4
C34_Witness ==
    /\ last.op \in MapOps /\ last.err = "" /\ last.h \in handles
    /\ last.h.pages = PageRangeNew(PageBase + 2, PageBase + 2)
    /\ \E a \in handles :
          /\ a # last.h /\ a.page_table_p4 = last.h.page_table_p4
          /\ a.pages = PageRangeNew(PageBase + 1, PageBase + 1)

\* the context_switch calls in progress
Calls == {cs} \cup { others[i] : i \in DOMAIN others }
\* a call self.context_switch(next) is spinning on the lock
Spinning(self, next) ==
    \E c \in Calls : c.pc = "spin" /\ c.self = self /\ c.next = next
\* a call self.context_switch(next) has acquired the lock
Acquired(self, next) ==
    \E c \in Calls : c.pc \notin {"idle", "spin"} /\ c.self = self /\ c.next = next

\* C35: under fair scheduling every context_switch call that starts spinning
\* on the switch lock eventually acquires it, and no call leaves the lock held
\* forever: a lock that is held is released at last, also by a call that stops
\* at a failed runstate assertion after acquiring it.
C35_SwitchLockLiveness ==
    /\ CONTEXT_SWITCH_LOCK ~> ~CONTEXT_SWITCH_LOCK
    /\ \A self \in 0 .. (FairTasks - 1), next \in 0 .. (FairTasks - 1) :
          Spinning(self, next) ~> Acquired(self, next)
====
